---- MODULE Spec2Model ----
(***************************************************************************)
(* A model of the wundasmart integration: the syncvalues parser and device *)
(* classifier (pywundasmart.py), the coordinator's cache merge and poll    *)
(* cycle (__init__.py), the command channel send_command (pywundasmart.py) *)
(* and the per-address gate and session table (session.py).                *)
(*                                                                         *)
(* Python dicts are functions with a finite domain of strings (or ids).    *)
(* Floats that the code computes with (the hardware version) are integers  *)
(* in tenths: "4.0" is 40, and math.floor is division by 10.               *)
(***************************************************************************)
EXTENDS Integers, Sequences, FiniteSets, TLC

VARIABLES
    _semaphores,  \* session.py _semaphores: wunda_ip -> value of its Semaphore
    _sessions,    \* session.py _sessions: wunda_ip -> persistent session
    _devices,     \* coordinator._devices, per coordinator (keyed by its wunda_ip)
    _hub_info,    \* coordinator._device_sn, _device_name, _sw_version, _hw_version
    pc,           \* where each task is suspended
    attempts,     \* the `attempts` local of each task's retry loop
    retries,      \* the `retries` argument of each task's send_command call
    status,       \* the `status` local of send_command
    result,       \* the `result` local: what get_devices returned to the task
    outcome,      \* how each task's last operation ended (returned or raised)
    returned,     \* {} or {the value send_command returned to the task}
    requests,     \* requests the running operation has made so far (observation)
    sleeps,       \* sleeps the running operation has made so far (observation)
    data,         \* argument of the last direct parse_syncvalues call
    parsed,       \* what that call returned or raised
    refresh,      \* whether each task's entity action has requested a refresh
    call,         \* the last direct call of a helper: its name and arguments
    call_ret,     \* what that call returned or raised
    warned,       \* warnings the last direct parse_syncvalues call has shown
    transient,    \* the session and connector of each probe's transient session
    flow          \* what each probe's config-flow step has returned to the flow manager

vars == <<_semaphores, _sessions, _devices, _hub_info, pc, attempts, retries,
          status, result, outcome, returned, requests, sleeps, data, parsed,
          refresh, call, call_ret, warned, transient, flow>>

-----------------------------------------------------------------------------
(* Python values *)

None == "<None>"

EmptyDict == [k \in {} |-> None]

\* d.get(k, default)
Get(d, k, default) == IF k \in DOMAIN d THEN d[k] ELSE default

\* a | b on dicts: the keys of both, b's value where both have the key
DictOr(a, b) ==
    [k \in (DOMAIN a) \cup (DOMAIN b) |-> IF k \in DOMAIN b THEN b[k] ELSE a[k]]

\* {k: v for k, v in d.items() if k in keys}
Restrict(d, keys) == [k \in (DOMAIN d) \cap keys |-> d[k]]

\* dict(pairs): a later pair with the same key replaces the earlier one
RECURSIVE DictFromPairs(_)
DictFromPairs(pairs) ==
    IF pairs = <<>> THEN EmptyDict
    ELSE LET last == pairs[Len(pairs)]
         IN DictOr(DictFromPairs(SubSeq(pairs, 1, Len(pairs) - 1)),
                   (last[1] :> last[2]))

\* float(s) for the numeric strings the hub sends as device_hard_version,
\* in tenths
Float(s) ==
    CASE s = "4.0" -> 40
      [] s = "4.9" -> 49
      [] s = "2.0" -> 20
      [] s = "2.5" -> 25
      [] s = "3.0" -> 30
      [] s = "0.0" -> 0
      [] OTHER -> 0

\* int(math.floor(x)) of a float in tenths
Floor(x) == x \div 10

-----------------------------------------------------------------------------
(* const.py and the device classifier of pywundasmart.py *)

\* A set of identity fields that lacks `name`
DEVICE_DEFS_NoName ==
    {"device_sn", "prod_sn", "device_name", "device_type", "eth_mac", "id", "i"}

DEVICE_DEFS ==
    {"device_sn", "prod_sn", "device_name", "device_type", "eth_mac", "name", "id", "i"}

DEVICE_ID_RANGES ==
    [v \in {2, 4} |->
        IF v = 2
        THEN [MIN_SENSOR_ID |-> 1, MAX_SENSOR_ID |-> 30,
              MIN_TRV_ID |-> 31, MAX_TRV_ID |-> 79,
              MIN_UFH_ID |-> 80, MAX_UFH_ID |-> 84,
              MIN_ROOM_ID |-> 100, MAX_ROOM_ID |-> 119]
        ELSE [MIN_SENSOR_ID |-> 1, MAX_SENSOR_ID |-> 30,
              MIN_TRV_ID |-> 31, MAX_TRV_ID |-> 89,
              MIN_UFH_ID |-> 90, MAX_UFH_ID |-> 94,
              MIN_ROOM_ID |-> 121, MAX_ROOM_ID |-> 150]]

\* The warnings.warn calls one call of get_device_id_ranges makes
WarnCalls(hw_version) == IF Floor(hw_version) \in DOMAIN DEVICE_ID_RANGES THEN 0 ELSE 1

\* A lookup by the version itself where the code looks up its integer floor
get_device_id_ranges_Exact(hw_version) ==
    IF hw_version \in {20, 40}
    THEN DEVICE_ID_RANGES[Floor(hw_version)]
    ELSE DEVICE_ID_RANGES[4]

get_device_id_ranges(hw_version) ==
    IF Floor(hw_version) \in DOMAIN DEVICE_ID_RANGES
    THEN DEVICE_ID_RANGES[Floor(hw_version)]
    ELSE DEVICE_ID_RANGES[4]

_device_type_from_id(device_id, hw_version) ==
    LET id_ranges == get_device_id_ranges(hw_version)
    IN  IF device_id < id_ranges.MIN_SENSOR_ID THEN "wunda"
        ELSE IF id_ranges.MIN_SENSOR_ID <= device_id /\ device_id <= id_ranges.MAX_SENSOR_ID
             THEN "SENSOR"
        ELSE IF id_ranges.MIN_TRV_ID <= device_id /\ device_id <= id_ranges.MAX_TRV_ID
             THEN "TRV"
        ELSE IF id_ranges.MIN_UFH_ID <= device_id /\ device_id <= id_ranges.MAX_UFH_ID
             THEN "UFH"
        ELSE IF id_ranges.MIN_ROOM_ID <= device_id /\ device_id <= id_ranges.MAX_ROOM_ID
             THEN "ROOM"
        ELSE "UNKNOWN"

\* An offset that leaves out the first sensor id
get_sensor_id_from_room_ZeroBased(device) ==
    device["device_id"] - get_device_id_ranges(device["hw_version"]).MIN_ROOM_ID

get_sensor_id_from_room(device) ==
    LET id_ranges == get_device_id_ranges(device["hw_version"])
    IN  device["device_id"] - id_ranges.MIN_ROOM_ID + id_ranges.MIN_SENSOR_ID

\* int(s) for the numeric strings the hub sends as room_id
ParseInt(s) ==
    CASE s = "0" -> 0
      [] s = "1" -> 1
      [] s = "29" -> 29
      [] OTHER -> 0

\* What a helper call gives its caller: the error raised, or the returned
\* value, which is None or an integer
Returns(value) == [raised |-> None, none |-> FALSE, value |-> value]
ReturnsNone == [raised |-> None, none |-> TRUE, value |-> 0]
Raises(error) == [raised |-> error, none |-> FALSE, value |-> 0]

\* A lookup of room_id in the device record where the code looks in its state
TrvRoomId_FromDevice(device) == Get(device, "room_id", None)

\* device.get("state", {}).get("room_id")
TrvRoomId(device) == Get(Get(device, "state", EmptyDict), "room_id", None)

\* A helper that answers "no room" for the types that have none
get_room_id_from_device_NoneForOthers(device) ==
    LET device_type == device["device_type"]
        device_id == device["device_id"]
        id_ranges == get_device_id_ranges(device["hw_version"])
    IN  CASE device_type = "SENSOR" ->
                 Returns(device_id - id_ranges.MIN_SENSOR_ID + id_ranges.MIN_ROOM_ID)
          [] device_type = "TRV" ->
                 IF TrvRoomId(device) = None THEN ReturnsNone
                 ELSE Returns(ParseInt(TrvRoomId(device)) + id_ranges.MIN_ROOM_ID)
          [] device_type = "ROOM" -> Returns(device_id)
          [] OTHER -> ReturnsNone

get_room_id_from_device(device) ==
    LET device_type == device["device_type"]
        device_id == device["device_id"]
        id_ranges == get_device_id_ranges(device["hw_version"])
    IN  CASE device_type = "SENSOR" ->
                 Returns(device_id - id_ranges.MIN_SENSOR_ID + id_ranges.MIN_ROOM_ID)
          [] device_type = "TRV" ->
                 IF TrvRoomId(device) = None THEN ReturnsNone
                 ELSE Returns(ParseInt(TrvRoomId(device)) + id_ranges.MIN_ROOM_ID)
          [] device_type = "ROOM" -> Returns(device_id)
          [] OTHER -> Raises("RuntimeError")

-----------------------------------------------------------------------------
(* parse_syncvalues.  A payload is a sequence of lines; a line is           *)
(* [f0, f1, kv]: the two positional fields as the integers int() gives,     *)
(* and the `key:value` fields in wire order.                                *)

\* f"wunda.{device_sn}.{device_id}"
ExternalId(device_sn, device_id) == "wunda." \o device_sn \o "." \o ToString(device_id)

\* The parser's locals before the first line.  `order` is the insertion
\* order of `devices`; a Room's sensor_state is the sensor's state dict
\* itself, kept here as a reference [ref |-> sensor_id] until the return.
ParseStart ==
    [devices |-> EmptyDict, order |-> <<>>, device_sn |-> None, hw_version |-> 0,
     raised |-> None, warn_calls |-> 0]

\* A test of the first positional field where the code tests the second
UnusedSlot_FirstField(line) == line.f0 = 0

\* `0 == int(raw_values[1])`: the second number is zero for unused entities
UnusedSlot(line) == line.f1 = 0

\* A test for a different marker of a room that is not set up
DisabledRoom_ZeroMarker(device_type, device_values) ==
    device_type = "ROOM" /\ Get(device_values, "enable", None) = "0"

\* `device_type == "ROOM" and device_values.get("enable") == "255"`
DisabledRoom(device_type, device_values) ==
    device_type = "ROOM" /\ Get(device_values, "enable", None) = "255"

\* One iteration of the loop over data.splitlines()
ParseLine(st, line) ==
    LET device_values == DictFromPairs(line.kv)
        device_sn == IF st.device_sn \notin {None, ""} THEN st.device_sn
                     ELSE Get(device_values, "device_sn", None)
        hw_version == IF st.hw_version # 0 THEN st.hw_version
                      ELSE Float(Get(device_values, "device_hard_version", "0.0"))
        device_id == line.f0
        device_type == _device_type_from_id(device_id, hw_version)
        latched == [st EXCEPT !.device_sn = device_sn, !.hw_version = hw_version]
        fresh == [device_type |-> device_type, device_id |-> device_id,
                  hw_version |-> hw_version]
        device0 == IF device_id \in DOMAIN st.devices THEN st.devices[device_id] ELSE fresh
        state0 == Get(device0, "state", EmptyDict)
        device1 == DictOr(device0, Restrict(device_values, DEVICE_DEFS))
        state1 == DictOr(state0, Restrict(device_values, (DOMAIN device_values) \ DEVICE_DEFS))
        device2 == DictOr(device1, [state |-> state1, id |-> ExternalId(device_sn, device_id)])
        sensor_id == get_sensor_id_from_room(device2)
        device3 == IF device_type = "ROOM"
                   THEN DictOr(device2,
                               [sensor_state |->
                                   IF sensor_id \in DOMAIN st.devices
                                   THEN [ref |-> sensor_id] ELSE EmptyDict])
                   ELSE device2
    IN  IF st.raised # None THEN st
        ELSE IF device_sn = None
             THEN [st EXCEPT !.raised = "No device_sn found"]
        ELSE IF hw_version = 0
             THEN [latched EXCEPT !.raised = "No device_hard_version found"]
        ELSE IF UnusedSlot(line) THEN latched
        ELSE IF DisabledRoom(device_type, device_values)
             THEN [latched EXCEPT !.warn_calls = @ + WarnCalls(hw_version)]
        ELSE [latched EXCEPT
                 !.warn_calls = @ + WarnCalls(hw_version)
                                  + (IF device_type = "ROOM" THEN WarnCalls(hw_version)
                                     ELSE 0),
                 !.devices = DictOr(st.devices, (device_id :> device3)),
                 !.order = IF device_id \in DOMAIN st.devices THEN st.order
                           ELSE Append(st.order, device_id)]

\* The loop: the locals after line i are those after line i-1, changed by
\* line i
RECURSIVE ParseLines(_, _)
ParseLines(lines, i) ==
    IF i = 0 THEN ParseStart
    ELSE CHOOSE after \in {ParseLine(st, lines[i]) : st \in {ParseLines(lines, i - 1)}} : TRUE

\* A return in which a Room has the values its sensor had before the
\* Room's record, that is none
Resolve_Snapshot(devices) ==
    [id \in DOMAIN devices |->
        IF "sensor_state" \in DOMAIN devices[id]
        THEN DictOr(devices[id], [sensor_state |-> EmptyDict])
        ELSE devices[id]]

\* The returned dict: every sensor_state reference is the sensor's state
\* as it is at the return.
Resolve(devices) ==
    [id \in DOMAIN devices |->
        IF "sensor_state" \in DOMAIN devices[id]
           /\ DOMAIN devices[id]["sensor_state"] = {"ref"}
        THEN DictOr(devices[id],
                    [sensor_state |-> devices[devices[id]["sensor_state"]["ref"]]["state"]])
        ELSE devices[id]]

\* parse_syncvalues(data): [raised, devices, order]
parse_syncvalues(lines) ==
    CHOOSE ret \in {IF st.raised # None
                    THEN [raised |-> st.raised, devices |-> EmptyDict, order |-> <<>>]
                    ELSE [raised |-> None, devices |-> Resolve(st.devices),
                          order |-> st.order] :
                    st \in {ParseLines(lines, Len(lines))}} : TRUE

\* The warnings.warn calls parse_syncvalues(data) makes, all with the same
\* text, category and line
parse_warn_calls(lines) ==
    CHOOSE n \in {st.warn_calls : st \in {ParseLines(lines, Len(lines))}} : TRUE

\* The action the interpreter's warnings filter has for the warning:
\* "default" shows the first of the calls that have the same text and
\* line, "always" (the test runner's) shows every call.
WarningActions == {"default", "always"}

\* The warnings shown for n calls made while the filter has this action
\* and the module has shown none yet
Shown(action, n) == IF action = "always" THEN n ELSE IF n > 0 THEN 1 ELSE 0

-----------------------------------------------------------------------------
(* get_devices: the reply of syncvalues.cgi as the caller sees it.  A reply *)
(* is [kind, code, body]: kind "http" with a status code and a payload, or  *)
(* kind "error" for asyncio.TimeoutError / aiohttp.ClientError.             *)

NoResult == [state |-> FALSE, code |-> 0, devices |-> EmptyDict, order |-> <<>>,
             raised |-> None]

\* A get_devices that lets a transport error go on to its caller
get_devices_Uncaught(reply) ==
    IF reply.kind = "error"
    THEN [NoResult EXCEPT !.raised = reply.error]
    ELSE IF reply.code = 200
         THEN [NoResult EXCEPT !.state = TRUE, !.code = 200]
         ELSE [NoResult EXCEPT !.code = reply.code]

get_devices(reply) ==
    IF reply.kind = "error"
    THEN [NoResult EXCEPT !.code = 500]
    ELSE IF reply.code = 200
         THEN LET p == parse_syncvalues(reply.body)
              IN  IF p.raised # None
                  THEN [NoResult EXCEPT !.raised = p.raised, !.code = 200]
                  ELSE [state |-> TRUE, code |-> 200, devices |-> p.devices,
                        order |-> p.order, raised |-> None]
         ELSE [NoResult EXCEPT !.code = reply.code]

-----------------------------------------------------------------------------
(* WundasmartDataUpdateCoordinator._async_update_data: the merge of a fetch *)
(* into self._devices.                                                      *)

\* device | {"state": prev.get("state", {}) | state}
MergeState(prev, device) ==
    DictOr(device, [state |-> DictOr(Get(prev, "state", EmptyDict), device["state"])])

\* A merge of sensor_state that reads the wrong key of `prev`
MergeSensorState_FromState(prev, device) ==
    DictOr(device,
           [sensor_state |-> DictOr(Get(prev, "state", EmptyDict), device["sensor_state"])])

\* device | {"sensor_state": prev.get("sensor_state", {}) | sensor_state}
MergeSensorState(prev, device) ==
    DictOr(device,
           [sensor_state |-> DictOr(Get(prev, "sensor_state", EmptyDict),
                                    device["sensor_state"])])

\* An assignment where the code updates in place
UpdateInPlace_Replace(cached, rhs) == rhs

\* self._devices[wunda_id] |= <right-hand side>
UpdateInPlace(cached, rhs) == DictOr(cached, rhs)

\* The two statements of the loop body for one device; `cached` is
\* self._devices.setdefault(wunda_id, {}).
MergeDevice(cached, device) ==
    LET afterState ==
            IF "state" \in DOMAIN device
            THEN UpdateInPlace(cached, MergeState(cached, device))
            ELSE cached
    IN  IF "sensor_state" \in DOMAIN device
        THEN UpdateInPlace(afterState, MergeSensorState(afterState, device))
        ELSE afterState

\* A merge that keeps only the devices of the fetch
MergeDevices_Replace(cache, devices) ==
    [id \in DOMAIN devices |-> MergeDevice(Get(cache, id, EmptyDict), devices[id])]

\* The whole loop over result["devices"].items(), as far as self._devices goes
MergeDevices(cache, devices) ==
    LET touched == {id \in DOMAIN devices :
                       "state" \in DOMAIN devices[id] \/ "sensor_state" \in DOMAIN devices[id]}
    IN  [id \in (DOMAIN cache) \cup touched |->
            IF id \in touched
            THEN MergeDevice(Get(cache, id, EmptyDict), devices[id])
            ELSE cache[id]]

NoHubInfo == [_device_sn |-> None, _device_name |-> None, _sw_version |-> None,
              _hw_version |-> None]

\* The loop's last statement: the first device (in the fetch's order) with a
\* device_sn sets the hub's serial number and description, once.
RECURSIVE LatchHubInfo(_, _, _)
LatchHubInfo(info, devices, order) ==
    IF order = <<>> THEN info
    ELSE LET device == devices[Head(order)]
             next == IF info._device_sn = None /\ "device_sn" \in DOMAIN device
                     THEN [_device_sn |-> device["device_sn"],
                           _device_name |-> Get(device, "name", "Smart HubSwitch"),
                           _sw_version |-> Get(device, "device_soft_version", "unknown"),
                           _hw_version |-> Get(device, "device_hard_version", "unknown")]
                     ELSE info
         IN  LatchHubInfo(next, devices, Tail(order))

-----------------------------------------------------------------------------
(* session.py: the per-address gate and the persistent-session table *)

\* asyncio.Semaphore(value=1)
SemaphoreValue == 1

\* A _get_semaphore that makes a semaphore on every call
_get_semaphore_Unstored(sems, wunda_ip) == DictOr(sems, (wunda_ip :> SemaphoreValue))

\* _get_semaphore(wunda_ip): the table after the call (a semaphore is made
\* and stored on the first use of an address)
_get_semaphore(sems, wunda_ip) ==
    IF wunda_ip \in DOMAIN sems THEN sems
    ELSE DictOr(sems, (wunda_ip :> SemaphoreValue))

\* Semaphore.locked()
Locked(sems, wunda_ip) == _get_semaphore(sems, wunda_ip)[wunda_ip] = 0

\* An acquire that takes the gate of every address
Acquire_AllAddresses(sems, wunda_ip) ==
    [a \in DOMAIN _get_semaphore(sems, wunda_ip) |-> _get_semaphore(sems, wunda_ip)[a] - 1]

\* Semaphore.acquire() once it does not block, and Semaphore.release()
Acquire(sems, wunda_ip) ==
    [_get_semaphore(sems, wunda_ip) EXCEPT ![wunda_ip] = @ - 1]

\* A context that is left without a release
Release_Dropped(sems, wunda_ip) == sems

Release(sems, wunda_ip) == [sems EXCEPT ![wunda_ip] = @ + 1]

\* A get_persistent_session that makes a session on every call
PersistentSession_AlwaysNew(sessions, wunda_ip) ==
    DictOr(sessions,
           (wunda_ip :> [closed |-> FALSE,
                         made |-> IF wunda_ip \in DOMAIN sessions
                                  THEN sessions[wunda_ip].made + 1 ELSE 1]))

\* get_persistent_session's body up to the yield: the stored session if
\* there is one and it is not closed, else a new one; stored either way.
PersistentSession(sessions, wunda_ip) ==
    IF wunda_ip \in DOMAIN sessions /\ ~sessions[wunda_ip].closed
    THEN sessions
    ELSE DictOr(sessions,
                (wunda_ip :> [closed |-> FALSE,
                              made |-> IF wunda_ip \in DOMAIN sessions
                                       THEN sessions[wunda_ip].made + 1 ELSE 1]))

-----------------------------------------------------------------------------
(* Tasks.  A coordinator polls one hub address; entity actions send a       *)
(* command to their coordinator's address; a config-flow probe fetches      *)
(* through a transient session.                                             *)

Addrs == {"hubA", "hubB"}

Pollers == {"pollA"}
Actors == {"act1", "act2", "actB"}
Probes == {"probeA"}
Procs == Pollers \cup Actors \cup Probes

wunda_ip(p) == IF p = "actB" THEN "hubB" ELSE "hubA"

\* max_attempts of _async_update_data
max_attempts == 5

\* send_command's default for `retries`
DefaultRetries == 5

\* Tasks inside a session context (between the gate's acquire and release)
InSession == {"fetch", "request", "cmd_sleep", "probe_fetch", "teardown"}

\* A probe that holds no transient session
NoTransient == [session |-> "none", connector |-> "none"]

\* A config-flow step that has returned nothing yet
NoFlow == [step_id |-> None, type |-> None, errors |-> EmptyDict, raised |-> None]

\* `call` before any helper has been called directly
NoCall == [fn |-> None]

\* `call_ret` while the call drawn for a helper has not returned
Pending == [raised |-> "pending", none |-> FALSE, value |-> 0]

\* `parsed` before parse_syncvalues has been called
NotCalled == [raised |-> "not called", devices |-> EmptyDict, order |-> <<>>]

InitTasks ==
    /\ _semaphores = EmptyDict
    /\ _sessions = EmptyDict
    /\ _devices = [a \in Addrs |-> EmptyDict]
    /\ _hub_info = [a \in Addrs |-> NoHubInfo]
    /\ pc = [p \in Procs |-> "idle"]
    /\ attempts = [p \in Procs |-> 0]
    /\ retries = [p \in Procs |-> 0]
    /\ status = [p \in Procs |-> 0]
    /\ result = [p \in Procs |-> NoResult]
    /\ outcome = [p \in Procs |-> None]
    /\ returned = [p \in Procs |-> {}]
    /\ requests = [p \in Procs |-> 0]
    /\ sleeps = [p \in Procs |-> 0]
    /\ refresh = [p \in Procs |-> FALSE]
    /\ warned = 0
    /\ transient = [p \in Probes |-> NoTransient]
    /\ flow = [p \in Probes |-> NoFlow]

Init ==
    /\ InitTasks
    /\ data = <<>>
    /\ parsed = NotCalled
    /\ call = NoCall
    /\ call_ret = None

(* ---- _async_update_data ---- *)

\* The coordinator calls _async_update_data: attempts = 0, and the first
\* pass of the loop reaches `async with self.get_session()`.
PollStart(p) ==
    /\ pc[p] = "idle"
    /\ pc' = [pc EXCEPT ![p] = "acquire"]
    /\ attempts' = [attempts EXCEPT ![p] = 1]
    /\ result' = [result EXCEPT ![p] = NoResult]
    /\ outcome' = [outcome EXCEPT ![p] = None]
    /\ UNCHANGED <<_semaphores, _sessions, _devices, _hub_info, retries, status,
                   requests, sleeps, returned, data, parsed, refresh, call, call_ret,
                   warned, transient, flow>>

\* The gate is acquired, the persistent session looked up or made, and
\* get_devices sends its request.
PollEnter(p) ==
    /\ pc[p] = "acquire"
    /\ ~Locked(_semaphores, wunda_ip(p))
    /\ _semaphores' = Acquire(_semaphores, wunda_ip(p))
    /\ _sessions' = PersistentSession(_sessions, wunda_ip(p))
    /\ pc' = [pc EXCEPT ![p] = "fetch"]
    /\ requests' = [requests EXCEPT ![p] = @ + 1]
    /\ UNCHANGED <<_devices, _hub_info, attempts, retries, status, result, outcome,
                   sleeps, returned, data, parsed, refresh, call, call_ret,
                   warned, transient, flow>>

\* The reply arrives: get_devices returns (or parse_syncvalues raises), the
\* session context is left, and the rest of the loop pass runs up to the
\* next suspension: the merge and return, the sleep, or UpdateFailed.
PollResponse(p, reply) ==
    /\ pc[p] = "fetch"
    /\ \E r \in {get_devices(reply)}, a \in {wunda_ip(p)} :
           /\ _semaphores' = Release(_semaphores, a)
           /\ result' = [result EXCEPT ![p] = r]
           /\ IF r.raised # None
              THEN /\ outcome' = [outcome EXCEPT ![p] = "RuntimeError"]
                   /\ UNCHANGED <<_devices, _hub_info>>
              ELSE IF r.state
              THEN /\ outcome' = [outcome EXCEPT ![p] = "returned"]
                   /\ _devices' = [_devices EXCEPT ![a] = MergeDevices(@, r.devices)]
                   /\ _hub_info' = [_hub_info EXCEPT
                                       ![a] = LatchHubInfo(@, r.devices, r.order)]
              ELSE IF attempts[p] < max_attempts
              THEN UNCHANGED <<_devices, _hub_info, outcome>>
              ELSE /\ outcome' = [outcome EXCEPT ![p] = "UpdateFailed"]
                   /\ UNCHANGED <<_devices, _hub_info>>
           /\ IF r.raised = None /\ ~r.state /\ attempts[p] < max_attempts
              THEN /\ pc' = [pc EXCEPT ![p] = "sleep"]
                   /\ sleeps' = [sleeps EXCEPT ![p] = @ + 1]
                   /\ UNCHANGED <<attempts, requests>>
              ELSE /\ pc' = [pc EXCEPT ![p] = "idle"]
                   /\ attempts' = [attempts EXCEPT ![p] = 0]
                   /\ requests' = [requests EXCEPT ![p] = 0]
                   /\ sleeps' = [sleeps EXCEPT ![p] = 0]
    /\ UNCHANGED <<_sessions, retries, status, returned, data, parsed, refresh, call, call_ret,
                   warned, transient, flow>>

\* asyncio.sleep(1) returns: the next pass of the loop
PollWake(p) ==
    /\ pc[p] = "sleep"
    /\ pc' = [pc EXCEPT ![p] = "acquire"]
    /\ attempts' = [attempts EXCEPT ![p] = @ + 1]
    /\ UNCHANGED <<_semaphores, _sessions, _devices, _hub_info, retries, status,
                   result, outcome, requests, sleeps, returned, data, parsed, refresh, call, call_ret,
                   warned, transient, flow>>

(* ---- send_command, called by an entity action inside get_session() ---- *)

\* json.loads(body) for the bodies the model's hub sends
json_loads(body) ==
    CASE body = "{}" -> [raised |-> None, value |-> EmptyDict]
      [] body = "{\"ok\":1}" -> [raised |-> None, value |-> [ok |-> 1]]
      [] OTHER -> [raised |-> "JSONDecodeError", value |-> None]

\* A value of the params mapping: an int, a float (in tenths), a str or None
IntValue(n) == [kind |-> "int", num |-> n, str |-> ""]
FloatValue(tenths) == [kind |-> "float", num |-> tenths, str |-> ""]
StrValue(str) == [kind |-> "str", num |-> 0, str |-> str]
NoneValue == [kind |-> "None", num |-> 0, str |-> ""]

\* f"{v}"
Format(v) ==
    CASE v.kind = "int" -> ToString(v.num)
      [] v.kind = "float" -> ToString(v.num \div 10) \o "." \o ToString(v.num % 10)
      [] v.kind = "None" -> "None"
      [] OTHER -> v.str

\* An entry that keeps the "=" of a key without a value
ParamEntry_KeepsEquals(k, v) == IF v.kind = "None" THEN k \o "=" ELSE k \o "=" \o Format(v)

\* k if v is None else f"{k}={v}"
ParamEntry(k, v) == IF v.kind = "None" THEN k ELSE k \o "=" \o Format(v)

\* sep.join(parts)
RECURSIVE Join(_, _)
Join(sep, parts) ==
    IF parts = <<>> THEN ""
    ELSE IF Len(parts) = 1 THEN parts[1]
    ELSE parts[1] \o sep \o Join(sep, Tail(parts))

\* Line 156 of send_command: the query string of a params mapping, given as
\* its items in mapping order
EncodeParams(params) ==
    Join("&", [i \in 1..Len(params) |-> ParamEntry(params[i][1], params[i][2])])

\* An entity action (or another caller of send_command) starts and reaches
\* `async with self.coordinator.get_session()`.
ActStart(p) ==
    /\ pc[p] = "idle"
    /\ pc' = [pc EXCEPT ![p] = "acquire"]
    /\ outcome' = [outcome EXCEPT ![p] = None]
    /\ returned' = [returned EXCEPT ![p] = {}]
    /\ status' = [status EXCEPT ![p] = 0]
    /\ refresh' = [refresh EXCEPT ![p] = FALSE]
    /\ UNCHANGED <<_semaphores, _sessions, _devices, _hub_info, attempts, retries,
                   result, requests, sleeps, data, parsed, call, call_ret,
                   warned, transient, flow>>

\* The gate is acquired, the session looked up or made, and
\* send_command(retries=n) runs to its first request; with no pass of the
\* loop (n < 1) it reaches the final log line, where `status` is unbound.
ActEnter(p, n) ==
    /\ pc[p] = "acquire"
    /\ ~Locked(_semaphores, wunda_ip(p))
    /\ _sessions' = PersistentSession(_sessions, wunda_ip(p))
    /\ IF 0 < n
       THEN /\ _semaphores' = Acquire(_semaphores, wunda_ip(p))
            /\ retries' = [retries EXCEPT ![p] = n]
            /\ attempts' = [attempts EXCEPT ![p] = 1]
            /\ requests' = [requests EXCEPT ![p] = @ + 1]
            /\ pc' = [pc EXCEPT ![p] = "request"]
            /\ UNCHANGED outcome
       ELSE /\ _semaphores' = Release(Acquire(_semaphores, wunda_ip(p)), wunda_ip(p))
            /\ pc' = [pc EXCEPT ![p] = "idle"]
            /\ outcome' = [outcome EXCEPT ![p] = "UnboundLocalError"]
            /\ UNCHANGED <<attempts, retries, requests>>
    /\ UNCHANGED <<_devices, _hub_info, status, result, sleeps, returned, data, parsed, refresh, call, call_ret,
                   warned, transient, flow>>

\* A loop that retries once more than `retries`
SendCommandStep_ExtraAttempt(reply, attempts_, retries_) ==
    IF reply.kind = "error" THEN reply.error
    ELSE IF reply.code = 200
         THEN IF json_loads(reply.body).raised = None THEN "return"
              ELSE "JSONDecodeError"
    ELSE IF attempts_ <= retries_ THEN "sleep"
    ELSE "RuntimeError"

\* A loop that treats a malformed body like a failed request
SendCommandStep_RetryBadJson(reply, attempts_, retries_) ==
    IF reply.kind = "error" THEN reply.error
    ELSE IF reply.code = 200 /\ json_loads(reply.body).raised = None THEN "return"
    ELSE IF attempts_ < retries_ THEN "sleep"
    ELSE "RuntimeError"

\* What one pass of send_command's loop does with the reply to its request:
\* "return", "sleep" (retry after retry_delay), or the error it raises
SendCommandStep(reply, attempts_, retries_) ==
    IF reply.kind = "error" THEN reply.error
    ELSE IF reply.code = 200
         THEN IF json_loads(reply.body).raised = None THEN "return"
              ELSE "JSONDecodeError"
    ELSE IF attempts_ < retries_ THEN "sleep"
    ELSE "RuntimeError"

\* An entity action that requests a refresh whatever its command did
RequestsRefresh_Always(step) == TRUE

\* An entity action calls coordinator.async_request_refresh() after its
\* session context, which it reaches only when send_command has returned
RequestsRefresh(step) == step = "return"

\* A command that gives the gate up for the time of its retry delay
CmdResponse_SleepsUnlocked(p, reply) ==
    /\ pc[p] = "request"
    /\ status' = [status EXCEPT ![p] = IF reply.kind = "http" THEN reply.code ELSE @]
    /\ \E step \in {SendCommandStep(reply, attempts[p], retries[p])} :
           /\ pc' = [pc EXCEPT ![p] = IF step = "sleep" THEN "cmd_sleep" ELSE "idle"]
           /\ sleeps' = [sleeps EXCEPT ![p] = IF step = "sleep" THEN @ + 1 ELSE 0]
           /\ _semaphores' = [_semaphores EXCEPT ![wunda_ip(p)] = SemaphoreValue]
           /\ outcome' = [outcome EXCEPT
                             ![p] = IF step = "sleep" THEN @
                                    ELSE IF step = "return" THEN "returned" ELSE step]
           /\ returned' = [returned EXCEPT
                              ![p] = IF step = "return"
                                     THEN {json_loads(reply.body).value} ELSE {}]
           /\ attempts' = [attempts EXCEPT ![p] = IF step = "sleep" THEN @ ELSE 0]
           /\ retries' = [retries EXCEPT ![p] = IF step = "sleep" THEN @ ELSE 0]
           /\ requests' = [requests EXCEPT ![p] = IF step = "sleep" THEN @ ELSE 0]
           /\ refresh' = [refresh EXCEPT ![p] = RequestsRefresh(step)]
    /\ UNCHANGED <<_sessions, _devices, _hub_info, result, data, parsed, call, call_ret,
                   warned, transient, flow>>

\* The reply to a command request arrives; the task runs to its next
\* suspension.  When send_command returns or raises, the session context
\* is left and the gate released; an entity action whose command has
\* returned goes on to request a refresh.
CmdResponse(p, reply) ==
    /\ pc[p] = "request"
    /\ status' = [status EXCEPT ![p] = IF reply.kind = "http" THEN reply.code ELSE @]
    /\ \E step \in {SendCommandStep(reply, attempts[p], retries[p])} :
           IF step = "sleep"
           THEN /\ pc' = [pc EXCEPT ![p] = "cmd_sleep"]
                /\ sleeps' = [sleeps EXCEPT ![p] = @ + 1]
                /\ UNCHANGED <<_semaphores, outcome, returned, attempts, retries, requests,
                               refresh>>
           ELSE /\ pc' = [pc EXCEPT ![p] = "idle"]
                /\ _semaphores' = Release(_semaphores, wunda_ip(p))
                /\ outcome' = [outcome EXCEPT
                                  ![p] = IF step = "return" THEN "returned" ELSE step]
                /\ returned' = [returned EXCEPT
                                   ![p] = IF step = "return"
                                          THEN {json_loads(reply.body).value} ELSE {}]
                /\ attempts' = [attempts EXCEPT ![p] = 0]
                /\ retries' = [retries EXCEPT ![p] = 0]
                /\ requests' = [requests EXCEPT ![p] = 0]
                /\ sleeps' = [sleeps EXCEPT ![p] = 0]
                /\ refresh' = [refresh EXCEPT ![p] = RequestsRefresh(step)]
    /\ UNCHANGED <<_sessions, _devices, _hub_info, result, data, parsed, call, call_ret,
                   warned, transient, flow>>

\* asyncio.sleep(retry_delay) returns: the next pass of the loop sends the
\* next request.
CmdWake(p) ==
    /\ pc[p] = "cmd_sleep"
    /\ pc' = [pc EXCEPT ![p] = "request"]
    /\ attempts' = [attempts EXCEPT ![p] = @ + 1]
    /\ requests' = [requests EXCEPT ![p] = @ + 1]
    /\ UNCHANGED <<_semaphores, _sessions, _devices, _hub_info, retries, status,
                   result, outcome, sleeps, returned, data, parsed, refresh, call, call_ret,
                   warned, transient, flow>>

(* ---- config_flow.Hub.authenticate through get_transient_session ---- *)

\* validate_input after hub.authenticate(): the exception it raises, if
\* any (the parser's exception goes through it)
validate_input(result_) ==
    IF result_.raised # None THEN "RuntimeError"
    ELSE IF result_.state = FALSE /\ result_.code = -201 THEN "InvalidAuth"
    ELSE IF result_.state = FALSE /\ result_.code = -200 THEN "CannotConnect"
    ELSE None

\* async_step_user / async_step_reconfigure with user_input, after the
\* probe: the flow result returned, or the exception that is not caught
async_step(step_id, result_) ==
    LET raised == validate_input(result_)
    IN  CASE raised = "CannotConnect" ->
                 [NoFlow EXCEPT !.step_id = step_id, !.type = "form",
                                !.errors = [base |-> "cannot_connect"]]
          [] raised = "InvalidAuth" ->
                 [NoFlow EXCEPT !.step_id = step_id, !.type = "form",
                                !.errors = [base |-> "invalid_auth"]]
          [] raised = None ->
                 [NoFlow EXCEPT !.step_id = step_id,
                                !.type = IF step_id = "user" THEN "create_entry"
                                         ELSE "update_reload_and_abort"]
          [] OTHER -> [NoFlow EXCEPT !.step_id = step_id, !.raised = raised]

\* The steps of the config flow that probe the hub
FlowSteps == {"user", "reconfigure"}

ProbeStart(p) ==
    /\ pc[p] = "idle"
    /\ pc' = [pc EXCEPT ![p] = "acquire"]
    /\ result' = [result EXCEPT ![p] = NoResult]
    /\ outcome' = [outcome EXCEPT ![p] = None]
    /\ flow' = [flow EXCEPT ![p] = NoFlow]
    /\ UNCHANGED <<_semaphores, _sessions, _devices, _hub_info, attempts, retries,
                   status, requests, sleeps, returned, data, parsed, refresh, call, call_ret,
                   warned, transient>>

\* The gate is acquired, a connector and session are made (not stored), and
\* get_devices sends its request.
ProbeEnter(p) ==
    /\ pc[p] = "acquire"
    /\ ~Locked(_semaphores, wunda_ip(p))
    /\ _semaphores' = Acquire(_semaphores, wunda_ip(p))
    /\ pc' = [pc EXCEPT ![p] = "probe_fetch"]
    /\ requests' = [requests EXCEPT ![p] = @ + 1]
    /\ transient' = [transient EXCEPT ![p] = [session |-> "open", connector |-> "open"]]
    /\ UNCHANGED <<_sessions, _devices, _hub_info, attempts, retries, status, result,
                   outcome, sleeps, returned, data, parsed, refresh, call, call_ret,
                   warned, flow>>

\* A teardown that does not wait: the gate is released as the body is left
ProbeResponse_NoWait(p, reply) ==
    /\ pc[p] = "probe_fetch"
    /\ result' = [result EXCEPT ![p] = get_devices(reply)]
    /\ pc' = [pc EXCEPT ![p] = "teardown"]
    /\ _semaphores' = Release(_semaphores, wunda_ip(p))
    /\ transient' = [transient EXCEPT ![p] = [session |-> "closed", connector |-> "closed"]]
    /\ UNCHANGED <<_sessions, _devices, _hub_info, attempts, retries,
                   status, outcome, requests, sleeps, returned, data, parsed, refresh, call, call_ret,
                   warned, flow>>

\* The reply arrives and get_devices returns, or parse_syncvalues raises:
\* either way the body is left, the session is closed by its context, and
\* the `finally` block closes the connector and suspends in
\* asyncio.sleep(0), the gate still held.
ProbeResponse(p, reply) ==
    /\ pc[p] = "probe_fetch"
    /\ result' = [result EXCEPT ![p] = get_devices(reply)]
    /\ pc' = [pc EXCEPT ![p] = "teardown"]
    /\ transient' = [transient EXCEPT ![p] = [session |-> "closed", connector |-> "closed"]]
    /\ UNCHANGED <<_semaphores, _sessions, _devices, _hub_info, attempts, retries,
                   status, outcome, requests, sleeps, returned, data, parsed, refresh, call, call_ret,
                   warned, flow>>

\* asyncio.sleep(0) returns: the gate is released and authenticate returns
\* the result (or the parser's exception goes on to the caller);
\* validate_input and the config-flow step that called it run to their end
\* without suspending.
ProbeTeardown(p) ==
    /\ pc[p] = "teardown"
    /\ _semaphores' = Release(_semaphores, wunda_ip(p))
    /\ pc' = [pc EXCEPT ![p] = "idle"]
    /\ outcome' = [outcome EXCEPT
                      ![p] = IF result[p].raised # None THEN "RuntimeError" ELSE "returned"]
    /\ requests' = [requests EXCEPT ![p] = 0]
    /\ transient' = [transient EXCEPT ![p] = NoTransient]
    /\ \E step_id \in FlowSteps : flow' = [flow EXCEPT ![p] = async_step(step_id, result[p])]
    /\ UNCHANGED <<_sessions, _devices, _hub_info, attempts, retries, status, result,
                   sleeps, returned, data, parsed, refresh, call, call_ret,
                   warned>>

(* ---- climate.py: the entity's hvac state after a coordinator update ---- *)

\* Largest temp_pre and heat numbers the hub sends
MaxTempPre == 255
MaxHeat == 7

\* int(s) for a str of the room's state: the number it is the decimal
\* form of, or ValueError
IntOf(s) ==
    IF \E n \in -1..MaxTempPre : ToString(n) = s
    THEN [raised |-> None, value |-> CHOOSE n \in -1..MaxTempPre : ToString(n) = s]
    ELSE [raised |-> "ValueError", value |-> 0]

\* a & b for b >= 0 (Python ints are two's complement of any width)
RECURSIVE BitAnd(_, _)
BitAnd(a, b) ==
    IF b = 0 THEN 0
    ELSE (a % 2) * (b % 2) + 2 * BitAnd(a \div 2, b \div 2)

\* The local `temp_pre` or `heat` of __set_hvac_state: 0, or int(state[key])
\* when the key has a value and int() does not raise
FlagsOf(state, key) ==
    IF Get(state, key, None) = None THEN 0
    ELSE IF IntOf(state[key]).raised # None THEN 0
    ELSE IntOf(state[key]).value

\* A mode that tests for a manual set point before it tests for "off"
hvac_mode_HeatFirst(temp_pre) ==
    IF BitAnd(temp_pre, 144) = 16 THEN "heat"
    ELSE IF BitAnd(temp_pre, 20) = 20 THEN "off"
    ELSE "auto"

\* self._attr_hvac_mode
hvac_mode(temp_pre) ==
    IF BitAnd(temp_pre, 20) = 20 THEN "off"
    ELSE IF BitAnd(temp_pre, 144) = 16 THEN "heat"
    ELSE "auto"

\* An action that tests for heating before it tests for the adaptive start
hvac_action_HeatingFirst(temp_pre, heat) ==
    LET adaptive_start == BitAnd(temp_pre, 128)
        heating == BitAnd(heat, 1)
        demand == BitAnd(heat, 2)
    IN  IF heating # 0 /\ demand # 0 THEN "heating"
        ELSE IF adaptive_start # 0 /\ heating # 0 THEN "preheating"
        ELSE IF heating # 0 \/ demand # 0 THEN "idle"
        ELSE "off"

\* self._attr_hvac_action
hvac_action(temp_pre, heat) ==
    LET adaptive_start == BitAnd(temp_pre, 128)
        heating == BitAnd(heat, 1)
        demand == BitAnd(heat, 2)
    IN  IF adaptive_start # 0 /\ heating # 0 THEN "preheating"
        ELSE IF heating # 0 /\ demand # 0 THEN "heating"
        ELSE IF heating # 0 \/ demand # 0 THEN "idle"
        ELSE "off"

\* Largest number of tenths a temperature or humidity string stands for
MaxTenths == 300

\* float(s) for a str of a device's state, in tenths: the number it is a
\* decimal form of ("21.0" and "21" are both 21.0), or ValueError
FloatOf(s) ==
    LET hits == {n \in 0..MaxTenths :
                    \/ s = Format(FloatValue(n))
                    \/ n % 10 = 0 /\ s = ToString(n \div 10)}
    IN  IF hits # {}
        THEN [raised |-> None, value |-> CHOOSE n \in hits : TRUE]
        ELSE [raised |-> "ValueError", value |-> 0]

\* A float attribute of the entity: num / den tenths, and None as den = 0
NoneFloat == [num |-> 0, den |-> 0]
FloatAttr(tenths) == [num |-> tenths, den |-> 1]

\* climate.py PRESET_MODE_STATE_KEYS, in the order of the dict
PRESET_MODE_STATE_KEYS ==
    << <<"reduced", "t_lo">>, <<"eco", "t_norm">>, <<"comfort", "t_hi">> >>

\* The attributes __init__ gives the entity before its first update
NewEntity ==
    [_attr_current_temperature |-> NoneFloat, _attr_target_temperature |-> NoneFloat,
     _attr_current_humidity |-> NoneFloat, _attr_hvac_mode |-> "auto",
     _attr_preset_mode |-> "none"]

\* A choice of TRVs that takes every TRV of the graph
Trvs_AnyRoom(devices, wunda_id) ==
    {id \in DOMAIN devices : Get(devices[id], "device_type", None) = "TRV"}

\* self.__trvs: the ids of the TRVs of coordinator.data whose room id is
\* the entity's
Trvs(devices, wunda_id) ==
    {id \in DOMAIN devices :
        /\ Get(devices[id], "device_type", None) = "TRV"
        /\ \E room_id \in {get_room_id_from_device(devices[id])} :
               ~room_id.none /\ room_id.value = wunda_id}

\* float(trv.get("state", {}).get("vtemp", 0)), 0 when float() raises
TrvTemp(device) ==
    LET vtemp == Get(Get(device, "state", EmptyDict), "vtemp", None)
    IN  IF vtemp = None THEN 0
        ELSE IF FloatOf(vtemp).raised # None THEN 0
        ELSE FloatOf(vtemp).value

RECURSIVE SumOver(_, _)
SumOver(f, ids) ==
    IF ids = {} THEN 0
    ELSE LET id == CHOOSE x \in ids : TRUE
         IN  f[id] + SumOver(f, ids \ {id})

\* __set_current_temperature
set_current_temperature(prev, sensor_state, devices, wunda_id) ==
    IF Get(sensor_state, "temp", None) # None
    THEN IF FloatOf(sensor_state["temp"]).raised = None
         THEN FloatAttr(FloatOf(sensor_state["temp"]).value)
         ELSE prev
    ELSE LET trv_temps == [id \in Trvs(devices, wunda_id) |-> TrvTemp(devices[id])]
             counted == {id \in DOMAIN trv_temps : trv_temps[id] # 0}
         IN  IF counted # {}
             THEN [num |-> SumOver(trv_temps, counted), den |-> Cardinality(counted)]
             ELSE prev

\* __set_current_humidity and __set_target_temperature: float(state[key])
\* when the key has a value and float() does not raise, else the old value
set_float(prev, state, key) ==
    IF Get(state, key, None) # None /\ FloatOf(state[key]).raised = None
    THEN FloatAttr(FloatOf(state[key]).value)
    ELSE prev

\* A loop in which a later preset replaces an earlier one
RECURSIVE PresetFrom_LastMatch(_, _, _)
PresetFrom_LastMatch(i, state, set_temp) ==
    IF i > Len(PRESET_MODE_STATE_KEYS) THEN "none"
    ELSE LET preset_mode == PRESET_MODE_STATE_KEYS[i][1]
             state_key == PRESET_MODE_STATE_KEYS[i][2]
             later == PresetFrom_LastMatch(i + 1, state, set_temp)
         IN  IF /\ later = "none"
                /\ Get(state, state_key, None) # None
                /\ FloatOf(state[state_key]).raised = None
                /\ FloatOf(state[state_key]).value = set_temp
             THEN preset_mode
             ELSE later

\* The loop of __set_preset_mode from the i-th preset on, and its `else`
RECURSIVE PresetFrom(_, _, _)
PresetFrom(i, state, set_temp) ==
    IF i > Len(PRESET_MODE_STATE_KEYS) THEN "none"
    ELSE LET preset_mode == PRESET_MODE_STATE_KEYS[i][1]
             state_key == PRESET_MODE_STATE_KEYS[i][2]
         IN  IF /\ Get(state, state_key, None) # None
                /\ FloatOf(state[state_key]).raised = None
                /\ FloatOf(state[state_key]).value = set_temp
             THEN preset_mode
             ELSE PresetFrom(i + 1, state, set_temp)

\* A __set_preset_mode whose loop does not stop at the first match
set_preset_mode_LastMatch(prev, state) ==
    IF Get(state, "temp", None) = None THEN PresetFrom_LastMatch(1, state, 0)
    ELSE IF FloatOf(state["temp"]).raised # None THEN prev
    ELSE PresetFrom_LastMatch(1, state, FloatOf(state["temp"]).value)

\* __set_preset_mode: float(state.get("temp", 0.0)), and no change when
\* that raises
set_preset_mode(prev, state) ==
    IF Get(state, "temp", None) = None THEN PresetFrom(1, state, 0)
    ELSE IF FloatOf(state["temp"]).raised # None THEN prev
    ELSE PresetFrom(1, state, FloatOf(state["temp"]).value)

\* _handle_coordinator_update of a Room's entity: __update_state sets the
\* entity's attributes from coordinator.data, of which call.room is the
\* entity's room (coordinator.data.get(wunda_id, {})) and call.devices are
\* the other devices; call.entity has the attributes before the update.
HandleCoordinatorUpdate ==
    /\ call.fn = "_handle_coordinator_update"
    /\ call_ret = Pending
    /\ \E state \in {Get(call.room, "state", EmptyDict)},
          sensor_state \in {Get(call.room, "sensor_state", EmptyDict)} :
           call_ret' = [raised |-> None,
                        _attr_current_temperature |->
                            set_current_temperature(call.entity._attr_current_temperature,
                                                    sensor_state, call.devices,
                                                    call.wunda_id),
                        _attr_current_humidity |->
                            set_float(call.entity._attr_current_humidity, sensor_state, "rh"),
                        _attr_target_temperature |->
                            set_float(call.entity._attr_target_temperature, state, "temp"),
                        _attr_preset_mode |->
                            set_preset_mode(call.entity._attr_preset_mode, state),
                        _attr_hvac_mode |-> hvac_mode(FlagsOf(state, "temp_pre")),
                        _attr_hvac_action |-> hvac_action(FlagsOf(state, "temp_pre"),
                                                          FlagsOf(state, "heat"))]
    /\ UNCHANGED <<call, data, parsed, _semaphores, _sessions, _devices, _hub_info, pc,
                   attempts, retries, status, result, outcome, returned, requests, sleeps,
                   refresh, warned, transient, flow>>

(* ---- climate.py and water_heater.py: the entity's commands ---- *)

\* How the one send_command call of an entity action ends: it returns, or
\* raises one of its errors
SendOutcomes == {"return", "RuntimeError", "TimeoutError", "ClientError", "JSONDecodeError"}

\* An action that has raised before it got to send_command
RaisedUnsent(error) == [raised |-> error, commands |-> <<>>, refreshes |-> 0]

\* An action that has called send_command(params=params) in a session
\* context, which ended as `step`, and has then gone on to
\* async_request_refresh() if nothing was raised
Sent(params, step) ==
    [raised |-> IF step = "return" THEN None ELSE step,
     commands |-> <<params>>,
     refreshes |-> IF RequestsRefresh(step) THEN 1 ELSE 0]

\* An action that has sent nothing and has requested the refresh
Unsent == [raised |-> None, commands |-> <<>>, refreshes |-> 1]

\* The params of a "set the room's temperature" command
TempParams(wunda_id, temp) ==
    << <<"cmd", IntValue(1)>>, <<"roomid", IntValue(wunda_id)>>, <<"temp", FloatValue(temp)>>,
       <<"locktt", IntValue(0)>>, <<"time", IntValue(0)>> >>

\* float(self.__state[key]) and the command built with it, or the
\* KeyError / ValueError of the lookup
SendStateTemp(wunda_id, state, key, step) ==
    IF key \notin DOMAIN state THEN RaisedUnsent("KeyError")
    ELSE IF FloatOf(state[key]).raised # None THEN RaisedUnsent("ValueError")
    ELSE Sent(TempParams(wunda_id, FloatOf(state[key]).value), step)

\* An async_set_hvac_mode whose HEAT uses the room's target temperature
async_set_hvac_mode_HeatToTarget(hvac_mode_, wunda_id, state, step) ==
    CASE hvac_mode_ = "auto" ->
             Sent(<< <<"cmd", IntValue(1)>>, <<"roomid", IntValue(wunda_id)>>,
                     <<"prog", NoneValue>>, <<"locktt", IntValue(0)>>,
                     <<"time", IntValue(0)>> >>, step)
      [] hvac_mode_ = "heat" -> SendStateTemp(wunda_id, state, "temp", step)
      [] hvac_mode_ = "off" -> Sent(TempParams(wunda_id, 0), step)
      [] OTHER -> RaisedUnsent("NotImplementedError")

async_set_hvac_mode(hvac_mode_, wunda_id, state, step) ==
    CASE hvac_mode_ = "auto" ->
             Sent(<< <<"cmd", IntValue(1)>>, <<"roomid", IntValue(wunda_id)>>,
                     <<"prog", NoneValue>>, <<"locktt", IntValue(0)>>,
                     <<"time", IntValue(0)>> >>, step)
      [] hvac_mode_ = "heat" -> SendStateTemp(wunda_id, state, "t_hi", step)
      [] hvac_mode_ = "off" -> Sent(TempParams(wunda_id, 0), step)
      [] OTHER -> RaisedUnsent("NotImplementedError")

\* PRESET_MODE_STATE_KEYS.get(preset_mode)
PresetStateKey(preset_mode) ==
    IF \E i \in 1..Len(PRESET_MODE_STATE_KEYS) : PRESET_MODE_STATE_KEYS[i][1] = preset_mode
    THEN PRESET_MODE_STATE_KEYS[CHOOSE i \in 1..Len(PRESET_MODE_STATE_KEYS) :
                                    PRESET_MODE_STATE_KEYS[i][1] = preset_mode][2]
    ELSE None

\* `if x:` for a str or None
Truthy(x) == x \notin {None, ""}

\* An async_set_preset_mode that sends the value of the room's t_hi for
\* every preset
async_set_preset_mode_AlwaysHi(preset_mode, wunda_id, state, step) ==
    IF Truthy(preset_mode) /\ preset_mode # "none"
    THEN IF PresetStateKey(preset_mode) = None THEN RaisedUnsent("NotImplementedError")
         ELSE SendStateTemp(wunda_id, state, "t_hi", step)
    ELSE Unsent

async_set_preset_mode(preset_mode, wunda_id, state, step) ==
    IF Truthy(preset_mode) /\ preset_mode # "none"
    THEN IF PresetStateKey(preset_mode) = None THEN RaisedUnsent("NotImplementedError")
         ELSE SendStateTemp(wunda_id, state, PresetStateKey(preset_mode), step)
    ELSE Unsent

\* An entity command of the climate entity of call.room is called and runs
\* to its end: async_set_hvac_mode, async_turn_on, async_turn_off or
\* async_set_preset_mode.
ClimateCommand ==
    /\ call.fn \in {"async_set_hvac_mode", "async_turn_on", "async_turn_off",
                    "async_set_preset_mode"}
    /\ call_ret = Pending
    /\ \E step \in SendOutcomes, state \in {Get(call.room, "state", EmptyDict)} :
           call_ret' =
               CASE call.fn = "async_set_hvac_mode" ->
                        async_set_hvac_mode(call.arg, call.wunda_id, state, step)
                 [] call.fn = "async_turn_on" ->
                        async_set_hvac_mode("heat", call.wunda_id, state, step)
                 [] call.fn = "async_turn_off" ->
                        async_set_hvac_mode("off", call.wunda_id, state, step)
                 [] call.fn = "async_set_preset_mode" ->
                        async_set_preset_mode(call.arg, call.wunda_id, state, step)
    /\ UNCHANGED <<call, data, parsed, _semaphores, _sessions, _devices, _hub_info, pc,
                   attempts, retries, status, result, outcome, returned, requests, sleeps,
                   refresh, warned, transient, flow>>

HW_BOOST_OPERATIONS == {"boost_30", "boost_60", "boost_90", "boost_120"}

HW_OFF_OPERATIONS == {"off_30", "off_60", "off_90", "off_120"}

\* OPERATION_MODE_ALIASES.get(operation_mode, operation_mode)
OPERATION_MODE_ALIASES(operation_mode) ==
    CASE operation_mode = "on" -> "boost_120"
      [] operation_mode = "off" -> "off_120"
      [] OTHER -> operation_mode

\* Longest duration, in minutes, an operation name has
MaxMinutes == 120

\* A duration in minutes where the hub takes seconds
SplitDuration_Minutes(key) ==
    LET hits == {n \in 0..MaxMinutes :
                    \E prefix \in {"boost", "off"} : key = prefix \o "_" \o ToString(n)}
    IN  IF hits # {} THEN CHOOSE n \in hits : TRUE ELSE 0

\* The duration _split_operation(key) returns: 60 times the digits after
\* the underscore, and 0 for a key that has none
SplitDuration(key) ==
    LET hits == {n \in 0..MaxMinutes :
                    \E prefix \in {"boost", "off"} : key = prefix \o "_" \o ToString(n)}
    IN  IF hits # {} THEN 60 * (CHOOSE n \in hits : TRUE) ELSE 0

\* The params of a hot-water command
WaterParams(key, duration) == << <<"cmd", IntValue(3)>>, <<key, IntValue(duration)>> >>

\* async_set_operation_mode: what it has raised, sent and requested, and
\* the entity's _last_operation_mode and _last_operation_mode_timeout (in
\* seconds after the time of the call) when it ends
async_set_operation_mode(operation_mode_arg, entity, step) ==
    LET operation_mode == OPERATION_MODE_ALIASES(operation_mode_arg)
        duration == IF operation_mode \in HW_OFF_OPERATIONS \cup HW_BOOST_OPERATIONS
                    THEN SplitDuration(operation_mode) ELSE 0
        sent == IF ~Truthy(operation_mode) THEN Unsent
                ELSE IF operation_mode \in HW_OFF_OPERATIONS
                     THEN Sent(WaterParams("hw_off_time", duration), step)
                ELSE IF operation_mode \in HW_BOOST_OPERATIONS
                     THEN Sent(WaterParams("hw_boost_time", duration), step)
                ELSE IF operation_mode = "auto"
                     THEN Sent(WaterParams("hw_boost_time", 0), step)
                ELSE RaisedUnsent("NotImplementedError")
    IN  [raised |-> sent.raised, commands |-> sent.commands, refreshes |-> sent.refreshes,
         _last_operation_mode |->
             IF sent.raised = None THEN operation_mode ELSE entity._last_operation_mode,
         _last_operation_mode_timeout |->
             IF sent.raised = None THEN duration ELSE entity._last_operation_mode_timeout]

\* async_set_operation_mode of the water heater entity is called and runs
\* to its end.
WaterHeaterCommand ==
    /\ call.fn = "async_set_operation_mode"
    /\ call_ret = Pending
    /\ \E step \in SendOutcomes :
           call_ret' = async_set_operation_mode(call.arg, call.entity, step)
    /\ UNCHANGED <<call, data, parsed, _semaphores, _sessions, _devices, _hub_info, pc,
                   attempts, retries, status, result, outcome, returned, requests, sleeps,
                   refresh, warned, transient, flow>>

(* ---- the stored session of an address is closed ---- *)

\* Most sessions made for one address
MaxSessions == 3

\* The session object is handed to every caller of the context manager
\* and stays in the module's table; its close() makes `session.closed`
\* true, which is the case get_persistent_session tests for.
SessionClosed(a) ==
    /\ a \in DOMAIN _sessions
    /\ ~_sessions[a].closed
    /\ _sessions[a].made < MaxSessions
    /\ _sessions' = [_sessions EXCEPT ![a].closed = TRUE]
    /\ UNCHANGED <<_semaphores, _devices, _hub_info, pc, attempts, retries, status, result,
                   outcome, returned, requests, sleeps, data, parsed, refresh, call,
                   call_ret, warned, transient, flow>>

(* ---- a direct call of parse_syncvalues ---- *)

ParseCall ==
    /\ parsed = NotCalled
    /\ parsed' = parse_syncvalues(data)
    /\ \E action \in WarningActions : warned' = Shown(action, parse_warn_calls(data))
    /\ UNCHANGED <<data, _semaphores, _sessions, _devices, _hub_info, pc, attempts, retries,
                   status, result, outcome, returned, requests, sleeps, refresh, call, call_ret,
                   transient, flow>>

(* ---- direct calls of the helpers ---- *)

\* send_command, called with call.params, builds its query string
EncodeCall ==
    /\ call.fn = "send_command"
    /\ call_ret = None
    /\ call_ret' = EncodeParams(call.params)
    /\ UNCHANGED <<call, data, parsed, _semaphores, _sessions, _devices, _hub_info, pc,
                   attempts, retries, status, result, outcome, returned, requests, sleeps,
                   refresh,
                   warned, transient, flow>>

\* The devices a caller has at hand: those of the parsed graph, and the
\* same records before any state has been stored in them
DevicesAtHand ==
    {parsed.devices[id] : id \in DOMAIN parsed.devices}
        \cup {Restrict(parsed.devices[id], (DOMAIN parsed.devices[id]) \ {"state"}) :
                  id \in DOMAIN parsed.devices}

\* The device record parse_syncvalues makes for a new id
FreshDevice(device_id, hw_version) ==
    [device_type |-> _device_type_from_id(device_id, hw_version),
     device_id |-> device_id, hw_version |-> hw_version]

\* _device_type_from_id(call.device_id, call.hw_version) returns
TypeFromIdCall ==
    /\ call.fn = "_device_type_from_id"
    /\ call_ret = Pending
    /\ call_ret' = [raised |-> None,
                    device_type |-> _device_type_from_id(call.device_id, call.hw_version)]
    /\ UNCHANGED <<call, data, parsed, _semaphores, _sessions, _devices, _hub_info, pc,
                   attempts, retries, status, result, outcome, returned, requests, sleeps,
                   refresh, warned, transient, flow>>

\* get_sensor_id_from_room(call.device) returns
SensorIdOfCall ==
    /\ call.fn = "get_sensor_id_from_room"
    /\ call_ret = Pending
    /\ call_ret' = Returns(get_sensor_id_from_room(call.device))
    /\ UNCHANGED <<call, data, parsed, _semaphores, _sessions, _devices, _hub_info, pc,
                   attempts, retries, status, result, outcome, returned, requests, sleeps,
                   refresh, warned, transient, flow>>

\* get_room_id_from_device(call.device) returns or raises
RoomIdOfCall ==
    /\ call.fn = "get_room_id_from_device"
    /\ call_ret = Pending
    /\ call_ret' = get_room_id_from_device(call.device)
    /\ UNCHANGED <<call, data, parsed, _semaphores, _sessions, _devices, _hub_info, pc,
                   attempts, retries, status, result, outcome, returned, requests, sleeps,
                   refresh, warned, transient, flow>>

\* get_sensor_id_from_room(device) on a Room of the parsed graph
SensorIdCall(device) ==
    /\ call = NoCall
    /\ device \in DevicesAtHand
    /\ device["device_type"] = "ROOM"
    /\ call' = [fn |-> "get_sensor_id_from_room", device |-> device]
    /\ call_ret' = Returns(get_sensor_id_from_room(device))
    /\ UNCHANGED <<data, parsed, _semaphores, _sessions, _devices, _hub_info, pc, attempts,
                   retries, status, result, outcome, returned, requests, sleeps, refresh,
                   warned, transient, flow>>

\* get_room_id_from_device(device) on a device of the parsed graph
RoomIdCall(device) ==
    /\ call = NoCall
    /\ device \in DevicesAtHand
    /\ call' = [fn |-> "get_room_id_from_device", device |-> device]
    /\ call_ret' = get_room_id_from_device(device)
    /\ UNCHANGED <<data, parsed, _semaphores, _sessions, _devices, _hub_info, pc, attempts,
                   retries, status, result, outcome, returned, requests, sleeps, refresh,
                   warned, transient, flow>>

-----------------------------------------------------------------------------
(* The hub: the lines it sends and the replies it gives *)

\* The sequences over S of length at most n
RECURSIVE SeqsUpTo(_, _)
SeqsUpTo(S, n) ==
    IF n = 0 THEN {<<>>}
    ELSE LET shorter == SeqsUpTo(S, n - 1)
         IN  shorter \cup {Append(q, x) : q \in shorter, x \in S}

Line(f0, f1, kv) == [f0 |-> f0, f1 |-> f1, kv |-> kv]

HubLine4 == Line(0, 1, << <<"device_sn", "SN1">>, <<"device_hard_version", "4.0">>,
                          <<"device_name", "hub">> >>)
HubLine2 == Line(0, 1, << <<"device_sn", "SN1">>, <<"device_hard_version", "2.0">> >>)

Sensor1Temp == Line(1, 1, << <<"temp", "17.8">> >>)
Sensor1Warm == Line(1, 1, << <<"temp", "19.5">> >>)
Sensor1Rh == Line(1, 1, << <<"rh", "66.57">> >>)
Sensor1Both == Line(1, 1, << <<"temp", "17.8">>, <<"rh", "66.57">> >>)
Sensor1Unused == Line(1, 0, << <<"temp", "0.0">> >>)
Room121Named == Line(121, 1, << <<"name", "Lounge">>, <<"temp", "21.0">> >>)
Room121Hi == Line(121, 1, << <<"t_hi", "23.0">> >>)
Room121Disabled == Line(121, 1, << <<"enable", "255">> >>)

HubLine3Typed == Line(0, 1, << <<"device_sn", "SN2">>, <<"device_hard_version", "3.0">>,
                               <<"device_type", "9">> >>)
NoSerial == Line(0, 1, << <<"device_hard_version", "4.0">> >>)
Trv31 == Line(31, 1, << <<"room_id", "0">>, <<"vtemp", "18.0">> >>)
Ufh90 == Line(90, 1, << <<"name", "ufh">> >>)
Room100 == Line(100, 1, << <<"name", "Study">>, <<"temp", "20.0">> >>)
Unknown200 == Line(200, 1, << <<"x", "1">> >>)
Trv32NoRoom == Line(32, 1, << <<"vtemp", "19.0">> >>)
Trv33Room29 == Line(33, 1, << <<"room_id", "29">> >>)

\* Lines of the payloads parse_syncvalues is called with directly
ParseLinesSet == {HubLine4, HubLine2, HubLine3Typed, NoSerial, Sensor1Temp, Sensor1Rh,
                  Sensor1Unused, Trv31, Ufh90, Room100, Room121Named, Room121Disabled,
                  Unknown200, Sensor1Both, Sensor1Warm}

\* Most lines of a payload parse_syncvalues is called with directly
MaxLines == 3

\* Lines after the hub's line in the payloads the coordinator is polled with
BodyLines == {Sensor1Temp, Sensor1Warm, Sensor1Rh, Sensor1Unused, Room121Named, Room121Hi,
              Room121Disabled}

\* Most lines after the hub's line in a polled payload
MaxBody == 2

\* Payloads in which the records of Room 121 and of its Sensor 1 come in
\* every order
PairingPayloads ==
    {<<HubLine4, a, b, c>> :
        a \in {Sensor1Unused, Sensor1Both, Room121Named},
        b \in {Sensor1Unused, Sensor1Both, Room121Named, Room121Hi},
        c \in {Sensor1Unused, Sensor1Both, Room121Named, Room121Hi}}

\* A record whose device_sn field is there and is empty
EmptySerial == Line(5, 1, << <<"device_sn", "">>, <<"device_hard_version", "4.0">> >>)

\* Payloads whose first record has an empty device_sn
LatchPayloads ==
    {<<EmptySerial, a, b>> : a, b \in {HubLine4, HubLine3Typed, Sensor1Temp, EmptySerial}}

ParsePayloads == SeqsUpTo(ParseLinesSet, MaxLines) \cup PairingPayloads \cup LatchPayloads

MergePayloads == {<<h>> \o b : h \in {HubLine4}, b \in SeqsUpTo(BodyLines, MaxBody)}

Http(code, body) == [kind |-> "http", code |-> code, body |-> body, error |-> None]
TransportError(error) == [kind |-> "error", code |-> 0, body |-> None, error |-> error]

FailedReplies == {Http(500, <<>>), TransportError("TimeoutError"),
                  TransportError("ClientError")}

MergeReplies == {Http(200, d) : d \in MergePayloads} \cup FailedReplies

\* The device graphs get_devices returns for the polled payloads
MergeFetches == {get_devices(reply).devices : reply \in {Http(200, d) : d \in MergePayloads}}

SmallPayloads == {<<HubLine4, Sensor1Temp, Room121Named>>, <<Sensor1Temp>>}

SyncReplies == {Http(200, d) : d \in SmallPayloads} \cup FailedReplies

CmdReplies == {Http(200, "{}"), Http(200, "<html>"), Http(500, ""), Http(404, ""),
               TransportError("TimeoutError"), TransportError("ClientError")}

FewCmdReplies == {Http(200, "{}"), Http(500, ""), TransportError("TimeoutError")}

\* Largest `retries` argument of a direct send_command call
MaxRetries == 5

-----------------------------------------------------------------------------
(* Specifications *)

PollNext(p, replies) ==
    \/ PollStart(p)
    \/ PollEnter(p)
    \/ \E reply \in replies : PollResponse(p, reply)
    \/ PollWake(p)

ActNext(p, retriesArgs, replies) ==
    \/ ActStart(p)
    \/ \E n \in retriesArgs : ActEnter(p, n)
    \/ \E reply \in replies : CmdResponse(p, reply)
    \/ CmdWake(p)

ProbeNext(p) ==
    \/ ProbeStart(p)
    \/ ProbeEnter(p)
    \/ \E reply \in SyncReplies : ProbeResponse(p, reply)
    \/ ProbeTeardown(p)

\* The integration at work: polls, entity actions and a config-flow probe
Next ==
    \/ \E p \in Pollers : PollNext(p, SyncReplies)
    \/ \E p \in Actors : ActNext(p, {DefaultRetries}, FewCmdReplies)
    \/ \E p \in Probes : ProbeNext(p)

Spec == Init /\ [][Next]_vars

\* One coordinator polling a hub whose payload varies from poll to poll
NextMerge == \E p \in Pollers : PollNext(p, MergeReplies)

SpecMerge == Init /\ [][NextMerge]_vars

\* Payloads of a hub that sends the record of Room 121 before the record
\* of its paired Sensor 1
RoomFirstPayloads ==
    {<<HubLine4, r, t>> : r \in {Room121Named, Room121Hi},
                          t \in {Sensor1Temp, Sensor1Warm, Sensor1Rh, Sensor1Both}}

RoomFirstReplies == {Http(200, d) : d \in RoomFirstPayloads}

\* One coordinator polling such a hub.  The update coordinator calls
\* _async_update_data again after every update interval, the free gate is
\* acquired and asyncio.sleep(1) returns: these steps are taken whenever
\* they stay possible.  What the hub answers, and when, is the hub's.
NextPairing == \E p \in Pollers : PollNext(p, RoomFirstReplies \cup FailedReplies)

SpecPairing ==
    /\ Init
    /\ [][NextPairing]_vars
    /\ \A p \in Pollers :
           WF_vars(PollStart(p)) /\ WF_vars(PollEnter(p)) /\ WF_vars(PollWake(p))

\* The tasks of one hub address that compete for its gate
GateTasks == {"pollA", "act1", "probeA"}

\* A poll, an entity action and a config-flow probe of one hub address.
\* Every network call ends (with a failure if with nothing else), every
\* sleep returns, and a task that waits for the gate gets it if the gate
\* is free again and again (asyncio.Semaphore wakes its waiters in the
\* order they came).  Whether a task starts at all is not required.
NextProgress ==
    \/ \E p \in Pollers : PollNext(p, SyncReplies)
    \/ \E p \in {"act1"} : ActNext(p, {DefaultRetries}, FewCmdReplies)
    \/ \E p \in Probes : ProbeNext(p)

SpecProgress ==
    /\ Init
    /\ [][NextProgress]_vars
    /\ \A p \in Pollers :
           /\ SF_vars(PollEnter(p))
           /\ WF_vars(\E reply \in FailedReplies : PollResponse(p, reply))
           /\ WF_vars(PollWake(p))
    /\ \A p \in {"act1"} :
           /\ SF_vars(ActEnter(p, DefaultRetries))
           /\ WF_vars(\E reply \in {Http(500, "")} : CmdResponse(p, reply))
           /\ WF_vars(CmdWake(p))
    /\ \A p \in Probes :
           /\ SF_vars(ProbeEnter(p))
           /\ WF_vars(\E reply \in FailedReplies : ProbeResponse(p, reply))
           /\ WF_vars(ProbeTeardown(p))

\* A coordinator and an entity action of another hub, whose stored
\* sessions may be closed at any time
NextSession ==
    \/ \E p \in Pollers : PollNext(p, SyncReplies)
    \/ \E p \in {"actB"} : ActNext(p, {DefaultRetries}, FewCmdReplies)
    \/ \E a \in Addrs : SessionClosed(a)

SpecSession == Init /\ [][NextSession]_vars

\* parse_syncvalues called on any payload
InitParse ==
    /\ InitTasks
    /\ data \in ParsePayloads
    /\ parsed = NotCalled
    /\ call = NoCall
    /\ call_ret = None

NextParse == ParseCall

SpecParse == InitParse /\ [][NextParse]_vars

\* Callers of send_command with any `retries`, on two hub addresses
NextCmd == \E p \in {"act1", "actB"} : ActNext(p, 0..MaxRetries, CmdReplies)

SpecCmd == Init /\ [][NextCmd]_vars

\* Lines after the hub's line in the payloads whose devices the helpers are
\* called with
HelperLines == {Sensor1Temp, Trv31, Trv32NoRoom, Trv33Room29, Ufh90, Room100, Room121Named,
                Unknown200}

\* Most lines after the hub's line in such a payload
MaxHelperBody == 2

HelperPayloads ==
    {<<h>> \o b : h \in {HubLine4, HubLine2, HubLine3Typed},
                  b \in SeqsUpTo(HelperLines, MaxHelperBody)}

\* The helpers called on the devices of a parsed graph
InitHelpers ==
    /\ InitTasks
    /\ data \in HelperPayloads
    /\ parsed = NotCalled
    /\ call = NoCall
    /\ call_ret = None

NextHelpers ==
    \/ ParseCall
    \/ \E device \in DevicesAtHand : SensorIdCall(device)
    \/ \E device \in DevicesAtHand : RoomIdCall(device)

SpecHelpers == InitHelpers /\ [][NextHelpers]_vars

\* Largest device id the classifier is called with
MaxDeviceId == 160

\* Hardware versions the classifier and the id helpers are called with, in
\* tenths
HwVersions == {5, 10, 19, 20, 25, 29, 30, 39, 40, 49, 50, 99}

\* The classifier called with any id and version, and the id helpers with
\* the record the parser makes for that id: the sensor helper with Rooms
ClassifyCalls ==
    {[fn |-> "_device_type_from_id", device_id |-> i, hw_version |-> v] :
        i \in 0..MaxDeviceId, v \in HwVersions}
    \cup {[fn |-> "get_room_id_from_device", device |-> FreshDevice(i, v)] :
             i \in 0..MaxDeviceId, v \in HwVersions}
    \cup {c \in {[fn |-> "get_sensor_id_from_room", device |-> FreshDevice(i, v)] :
                    i \in 0..MaxDeviceId, v \in HwVersions} :
             c.device["device_type"] = "ROOM"}

InitClassify ==
    /\ InitTasks
    /\ data = <<>>
    /\ parsed = NotCalled
    /\ call \in ClassifyCalls
    /\ call_ret = Pending

NextClassify == TypeFromIdCall \/ SensorIdOfCall \/ RoomIdOfCall

SpecClassify == InitClassify /\ [][NextClassify]_vars

\* The strings a room's state has for temp_pre and heat: decimal numbers,
\* and strings int() does not take
TempPreStrings == {ToString(n) : n \in -1..MaxTempPre} \cup {"", "abc", "1.5", "0x10"}

HeatStrings == {ToString(n) : n \in 0..MaxHeat} \cup {"x"}

\* The rooms of coordinator.data an entity is updated from: no room at
\* all, and rooms whose state has, or lacks, temp_pre and heat
ClimateRooms ==
    {EmptyDict, [state |-> EmptyDict]}
    \cup {[state |-> [temp_pre |-> t]] : t \in TempPreStrings}
    \cup {[state |-> [heat |-> h]] : h \in HeatStrings}
    \cup {[state |-> [temp_pre |-> t, heat |-> h]] : t \in TempPreStrings, h \in HeatStrings}

\* A dict with key k when v is a value, and without it when v is None
Opt(k, v) == IF v = None THEN EmptyDict ELSE (k :> v)

\* The record of a version-4 TRV in coordinator.data
TrvDevice(device_id, room_id, vtemp) ==
    [device_type |-> "TRV", device_id |-> device_id, hw_version |-> 40,
     state |-> DictOr(Opt("room_id", room_id), Opt("vtemp", vtemp))]

\* A device of coordinator.data that is no TRV but has a vtemp
Ufh90Warm == [device_type |-> "UFH", device_id |-> 90, hw_version |-> 40,
              state |-> [vtemp |-> "25.0"]]

\* The room_id and vtemp strings of the TRVs: room 121 is room_id 0
TrvRoomIds == {None, "0", "1"}
TrvTemps == {None, "0.0", "18.0", "20.5", "x"}

\* The other devices of coordinator.data: up to three TRVs and a UFH
ClimateDevices ==
    {DictOr(DictOr((31 :> t31), (32 :> t32)), DictOr(t33, (90 :> Ufh90Warm))) :
        t31 \in {TrvDevice(31, r, v) : r \in TrvRoomIds, v \in TrvTemps},
        t32 \in {TrvDevice(32, r, v) : r \in TrvRoomIds, v \in TrvTemps},
        t33 \in {EmptyDict, (33 :> TrvDevice(33, "0", "19.0"))}}
    \cup {EmptyDict}

\* What the room's paired sensor has reported: nothing, or temp and rh
SensorStates ==
    {DictOr(Opt("temp", t), Opt("rh", h)) : t \in {None, "17.8", "abc"}, h \in {None, "55.0"}}

\* The rooms an entity takes its temperatures and humidity from
TemperatureRooms ==
    {[state |-> [temp |-> "21.0"]]}
    \cup {[state |-> [temp |-> "21.0"], sensor_state |-> ss] : ss \in SensorStates}

\* The entity before an update: new, or updated before from the same
\* sensor and TRVs (a humidity only if the sensor has ever reported one)
EntitiesBefore(room) ==
    {[NewEntity EXCEPT !._attr_current_temperature = t, !._attr_current_humidity = h] :
        t \in {NoneFloat, FloatAttr(150)},
        h \in {NoneFloat} \cup
              (IF Get(Get(room, "sensor_state", EmptyDict), "rh", None) # None
               THEN {FloatAttr(500)} ELSE {})}

\* The rooms an entity takes its target temperature and preset from
PresetRooms ==
    {[state |-> DictOr(DictOr(Opt("temp", t), Opt("t_lo", lo)),
                       DictOr(Opt("t_norm", norm), Opt("t_hi", hi)))] :
        t \in {None, "0.0", "16.0", "21", "21.0", "23.0", "abc"},
        lo \in {None, "0.0", "16.0", "21.0", "x"},
        norm \in {None, "18.5", "21.0"},
        hi \in {None, "21.0", "23.0"}}

\* The updates of an entity of Room 121
ClimateCalls ==
    {[fn |-> "_handle_coordinator_update", wunda_id |-> 121, room |-> room,
      devices |-> EmptyDict, entity |-> NewEntity] : room \in ClimateRooms}
    \cup UNION {{[fn |-> "_handle_coordinator_update", wunda_id |-> 121, room |-> room,
                  devices |-> devices, entity |-> entity] :
                    devices \in ClimateDevices, entity \in EntitiesBefore(room)} :
                   room \in TemperatureRooms}
    \cup {[fn |-> "_handle_coordinator_update", wunda_id |-> 121, room |-> room,
           devices |-> EmptyDict,
           entity |-> [NewEntity EXCEPT !._attr_preset_mode = preset_mode]] :
             room \in PresetRooms, preset_mode \in {"none", "comfort"}}

InitClimate ==
    /\ InitTasks
    /\ data = <<>>
    /\ parsed = NotCalled
    /\ call \in ClimateCalls
    /\ call_ret = Pending

NextClimate == HandleCoordinatorUpdate

SpecClimate == InitClimate /\ [][NextClimate]_vars

\* The rooms whose entity is given a command: with and without the preset
\* values in their state
CommandRooms ==
    {[state |-> DictOr(DictOr(Opt("temp", "21.0"), Opt("t_lo", lo)),
                       DictOr(Opt("t_norm", norm), Opt("t_hi", hi)))] :
        lo \in {None, "16.0"}, norm \in {None, "18.5", "x"}, hi \in {None, "21", "23.0"}}
    \cup {EmptyDict}

\* The modes and presets the climate commands are called with
HvacModeArgs == {"auto", "heat", "off", "cool", "heat_cool"}

PresetArgs == {"reduced", "eco", "comfort", "none", "boost", "", None}

\* The modes async_set_operation_mode is called with
OperationArgs ==
    HW_BOOST_OPERATIONS \cup HW_OFF_OPERATIONS
    \cup {"auto", "on", "off", "boost_45", "eco", "", None}

\* The water heater entity before the call: new, or with an operation that
\* was set 40 minutes ago
WaterEntities ==
    {[_last_operation_mode |-> None, _last_operation_mode_timeout |-> -1],
     [_last_operation_mode |-> "off_60", _last_operation_mode_timeout |-> 1200]}

\* The commands of the entities of Rooms 121 and 122 and of the water
\* heater
EntityCalls ==
    {[fn |-> "async_set_hvac_mode", arg |-> m, wunda_id |-> i, room |-> room] :
        m \in HvacModeArgs, i \in {121, 122}, room \in CommandRooms}
    \cup {[fn |-> f, arg |-> None, wunda_id |-> i, room |-> room] :
             f \in {"async_turn_on", "async_turn_off"}, i \in {121, 122},
             room \in CommandRooms}
    \cup {[fn |-> "async_set_preset_mode", arg |-> p, wunda_id |-> i, room |-> room] :
             p \in PresetArgs, i \in {121, 122}, room \in CommandRooms}
    \cup {[fn |-> "async_set_operation_mode", arg |-> m, entity |-> e] :
             m \in OperationArgs, e \in WaterEntities}

InitEntity ==
    /\ InitTasks
    /\ data = <<>>
    /\ parsed = NotCalled
    /\ call \in EntityCalls
    /\ call_ret = Pending

NextEntity == ClimateCommand \/ WaterHeaterCommand

SpecEntity == InitEntity /\ [][NextEntity]_vars

\* Keys and values of the params mappings send_command is called with
ParamKeys == {"cmd", "roomid", "prog", "temp"}

ParamValues == {IntValue(1), IntValue(121), NoneValue, FloatValue(215)}

\* Most entries of such a mapping
MaxParams == 3

\* The items of the mappings of at most n entries: sequences of entries
\* with distinct keys
RECURSIVE ItemsUpTo(_)
ItemsUpTo(n) ==
    IF n = 0 THEN {<<>>}
    ELSE LET shorter == ItemsUpTo(n - 1)
         IN  shorter \cup
             UNION {{Append(ps, e) :
                        e \in {x \in ParamKeys \X ParamValues :
                                  \A i \in 1..Len(ps) : ps[i][1] # x[1]}} :
                    ps \in shorter}

ParamItems == ItemsUpTo(MaxParams)

\* send_command called with any of the mappings
InitEncode ==
    /\ InitTasks
    /\ data = <<>>
    /\ parsed = NotCalled
    /\ call \in {[fn |-> "send_command", params |-> params] : params \in ParamItems}
    /\ call_ret = None

NextEncode == EncodeCall

SpecEncode == InitEncode /\ [][NextEncode]_vars

-----------------------------------------------------------------------------
(* Properties *)

\* A device's fields other than state and sensor_state
NonState(device) == Restrict(device, (DOMAIN device) \ {"state", "sensor_state"})

\* This step is task p's _async_update_data merging a successful fetch
Merging(p) == pc[p] = "fetch" /\ outcome'[p] = "returned"

\* d[k] is there and is what e[k] is
SameAt(d, e, k) == k \in DOMAIN d /\ d[k] = e[k]

\* C1: for every device id in both the cache and a merged fetch, every key
\* of the cached state that the fetched state lacks is still in the cached
\* state, with the same value, after the merge.
C1_StateRetention ==
    [][\A p \in Pollers : Merging(p) =>
          LET old == _devices[wunda_ip(p)]
              new == _devices'[wunda_ip(p)]
              fetched == result'[p].devices
          IN  \A id \in (DOMAIN old) \cap (DOMAIN fetched) :
                  \A k \in (DOMAIN Get(old[id], "state", EmptyDict))
                               \ (DOMAIN fetched[id]["state"]) :
                      SameAt(new[id]["state"], old[id]["state"], k)]_vars

\* C2: for every Room id in both the cache and a merged fetch, after the
\* merge the cached sensor_state has every fetched key with the fetched
\* value, and every key that only the cached sensor_state had is retained
\* with its old value.
C2_SensorStateRetention ==
    [][\A p \in Pollers : Merging(p) =>
          LET old == _devices[wunda_ip(p)]
              new == _devices'[wunda_ip(p)]
              fetched == result'[p].devices
          IN  \A id \in {i \in (DOMAIN old) \cap (DOMAIN fetched) :
                             "sensor_state" \in DOMAIN fetched[i]} :
                  LET was == Get(old[id], "sensor_state", EmptyDict)
                      got == fetched[id]["sensor_state"]
                      now == new[id]["sensor_state"]
                  IN  /\ \A k \in DOMAIN got : SameAt(now, got, k)
                      /\ \A k \in (DOMAIN was) \ (DOMAIN got) : SameAt(now, was, k)]_vars

\* C3: for one hub address, at most one task is inside a session context
\* (holding the address's gate) at any time.
C3_MutualExclusion ==
    \A a \in Addrs : Cardinality({p \in Procs : wunda_ip(p) = a /\ pc[p] \in InSession}) <= 1

\* A task is inside the session context of an address another task waits for
C3_Witness ==
    \E p, q \in Procs :
        /\ p # q /\ wunda_ip(p) = wunda_ip(q)
        /\ pc[p] \in InSession /\ pc[q] = "acquire"

\* C4: with retries >= 1, a non-200 reply to attempt number k < retries is
\* followed by a sleep and another request; a non-200 reply to attempt
\* number `retries` raises the command error, after exactly `retries`
\* requests and retries - 1 sleeps; no value is returned.
C4_RetryExhaustion ==
    [][\A p \in Actors :
          /\ \A reply \in CmdReplies :
                (reply.kind = "http" /\ reply.code # 200 /\ CmdResponse(p, reply)) =>
                    /\ requests[p] = attempts[p]
                    /\ sleeps[p] = attempts[p] - 1
                    /\ returned'[p] = {}
                    /\ IF attempts[p] < retries[p]
                       THEN /\ pc'[p] = "cmd_sleep"
                            /\ sleeps'[p] = sleeps[p] + 1
                            /\ outcome'[p] = None
                       ELSE /\ pc'[p] = "idle"
                            /\ outcome'[p] = "RuntimeError"
                            /\ requests[p] = retries[p]
                            /\ sleeps[p] = retries[p] - 1
          /\ (pc[p] = "cmd_sleep" /\ pc'[p] # "cmd_sleep") =>
                 /\ pc'[p] = "request"
                 /\ requests'[p] = requests[p] + 1]_vars

\* send_command has raised the command error after a non-200 status
C4_Witness == \E p \in Actors : outcome[p] = "RuntimeError" /\ status[p] \notin {0, 200}

\* C5: a transport error on an attempt that is not the last is followed by
\* a sleep and another attempt.
C5_TransportErrorRetried ==
    [][\A p \in Actors : \A reply \in CmdReplies :
          (reply.kind = "error" /\ attempts[p] < retries[p] /\ CmdResponse(p, reply)) =>
              pc'[p] = "cmd_sleep" /\ outcome'[p] = None]_vars

\* C6: a reply with status 200 ends send_command at once: it returns the
\* parsed body if the body is JSON and raises otherwise, whatever attempts
\* remain, and the session context is left.
C6_OkEndsCommand ==
    [][\A p \in Actors : \A reply \in CmdReplies :
          (reply.kind = "http" /\ reply.code = 200 /\ CmdResponse(p, reply)) =>
              /\ pc'[p] = "idle"
              /\ _semaphores'[wunda_ip(p)] = _semaphores[wunda_ip(p)] + 1
              /\ IF reply.body \in {"{}", "{\"ok\":1}"}
                 THEN /\ outcome'[p] = "returned"
                      /\ returned'[p] = {IF reply.body = "{}" THEN EmptyDict ELSE [ok |-> 1]}
                 ELSE /\ outcome'[p] = "JSONDecodeError"
                      /\ returned'[p] = {}]_vars

\* One call has returned the parsed body, another has failed on a
\* malformed body
C6_Witness ==
    \E p, q \in Actors :
        /\ outcome[p] = "returned" /\ returned[p] = {EmptyDict}
        /\ outcome[q] = "JSONDecodeError" /\ status[q] = 200

\* C7: merging into the cache a fetch that has just been merged changes
\* nothing; and so for every fetch the hub can send, from every cache.
C7_MergeIdempotent ==
    /\ \A p \in Pollers :
          outcome[p] = "returned" =>
              MergeDevices(_devices[wunda_ip(p)], result[p].devices) = _devices[wunda_ip(p)]
    /\ \A a \in Addrs : \A fetched \in MergeFetches :
          \E once \in {MergeDevices(_devices[a], fetched)} :
              MergeDevices(once, fetched) = once

\* A fetch has been merged into a cache that held something else
C7_Witness ==
    \E p \in Pollers :
        /\ outcome[p] = "returned"
        /\ result[p].devices # EmptyDict
        /\ _devices[wunda_ip(p)] # result[p].devices

\* C8: a device in the cache stays in the cache, and a step that merges no
\* fetch holding its id leaves its record as it is.
C8_DevicesStay ==
    [][\A a \in Addrs : \A id \in DOMAIN _devices[a] :
          /\ id \in DOMAIN _devices'[a]
          /\ (\A p \in Pollers : ~(Merging(p) /\ wunda_ip(p) = a
                                   /\ id \in DOMAIN result'[p].devices))
                 => _devices'[a][id] = _devices[a][id]]_vars

\* A fetch without Room 121 has been merged into a cache that holds it
C8_Witness ==
    \E p \in Pollers :
        /\ outcome[p] = "returned"
        /\ 121 \in (DOMAIN _devices[wunda_ip(p)]) \ (DOMAIN result[p].devices)

\* C9 as stated: after the merge the cached device's fields other than
\* state and sensor_state are exactly the fetched device's.
C9_NonStateReplaced ==
    [][\A p \in Pollers : Merging(p) =>
          \A id \in DOMAIN result'[p].devices :
              NonState(_devices'[wunda_ip(p)][id]) = NonState(result'[p].devices[id])]_vars

\* C9 amended: after the merge every field of the fetched device other than
\* state and sensor_state is in the cached device with the fetched value,
\* and such a field that only the cached device had is retained unchanged.
C9_NonStateUpdated ==
    [][\A p \in Pollers : Merging(p) =>
          LET old == _devices[wunda_ip(p)]
              new == _devices'[wunda_ip(p)]
              fetched == result'[p].devices
          IN  \A id \in DOMAIN fetched :
                  /\ \A k \in DOMAIN NonState(fetched[id]) : SameAt(new[id], fetched[id], k)
                  /\ id \in DOMAIN old =>
                        /\ DOMAIN NonState(new[id]) =
                               (DOMAIN NonState(old[id])) \cup (DOMAIN NonState(fetched[id]))
                        /\ \A k \in (DOMAIN NonState(old[id])) \ (DOMAIN fetched[id]) :
                               SameAt(new[id], old[id], k)]_vars

\* A merged fetch whose record of a device lacks a field the cache has
C9_Witness ==
    \E p \in Pollers :
        /\ outcome[p] = "returned"
        /\ \E id \in DOMAIN result[p].devices :
               (DOMAIN NonState(_devices[wunda_ip(p)][id]))
                   \ (DOMAIN result[p].devices[id]) # {}

\* C10: every device of the graph parse_syncvalues returns has the
\* device_type the classifier gives its id under the latched hardware
\* version.
C10_ClassifiedByRange ==
    parsed.raised = None =>
        \A id \in DOMAIN parsed.devices :
            parsed.devices[id]["device_type"]
                = _device_type_from_id(id, parsed.devices[id]["hw_version"])

\* The hardware version a successful parse of `data` has latched: the first
\* line's
FirstLineVersion ==
    IF data = <<>> THEN 0
    ELSE Float(Get(DictFromPairs(data[1].kv), "device_hard_version", "0.0"))

\* Line i of `data` is a record of a ROOM id with enable "255"
DisabledRoomLine(i) ==
    /\ _device_type_from_id(data[i].f0, FirstLineVersion) = "ROOM"
    /\ \E j \in 1..Len(data[i].kv) : data[i].kv[j] = <<"enable", "255">>

\* `data` without the lines whose index is in `dropped`
RECURSIVE Without(_, _)
Without(dropped, i) ==
    IF i = 0 THEN <<>>
    ELSE IF i \in dropped THEN Without(dropped, i - 1)
    ELSE Append(Without(dropped, i - 1), data[i])

\* C11: parse_syncvalues raises for a missing hub serial number only when
\* no line of the payload carries device_sn; a payload whose device_sn
\* first appears after the first line is parsed.
C11_SerialScannedOnAllLines ==
    parsed.raised = "No device_sn found" =>
        \A i \in 1..Len(data) : "device_sn" \notin DOMAIN DictFromPairs(data[i].kv)

\* C12: a record of a ROOM id with enable "255" creates and updates no
\* entry of the returned graph (the graph is that of the payload without
\* such records), and a Room id all of whose records have enable "255" is
\* not in the graph.
C12_DisabledRoomExcluded ==
    parsed.raised = None =>
        LET disabled == {i \in 1..Len(data) : DisabledRoomLine(i)}
        IN  /\ \A i \in disabled :
                   (\A j \in 1..Len(data) : data[j].f0 = data[i].f0 => j \in disabled)
                       => data[i].f0 \notin DOMAIN parsed.devices
            /\ 1 \notin disabled => parse_syncvalues(Without(disabled, Len(data))) = parsed

\* A parsed payload with a disabled record of a Room that another record
\* has put in the graph
C12_Witness ==
    /\ parsed.raised = None
    /\ \E i \in 1..Len(data) : DisabledRoomLine(i) /\ data[i].f0 \in DOMAIN parsed.devices

\* C13: a record whose second positional field is zero creates and updates
\* no entry of the returned graph, and a device id all of whose records
\* have a zero second field is not in the graph.
C13_UnusedSlotExcluded ==
    parsed.raised = None =>
        LET unused == {i \in 1..Len(data) : data[i].f1 = 0}
        IN  /\ \A i \in unused :
                   (\A j \in 1..Len(data) : data[j].f0 = data[i].f0 => j \in unused)
                       => data[i].f0 \notin DOMAIN parsed.devices
            /\ 1 \notin unused => parse_syncvalues(Without(unused, Len(data))) = parsed

\* A parsed payload with an unused record of a device that another record
\* has put in the graph
C13_Witness ==
    /\ parsed.raised = None
    /\ \E i \in 1..Len(data) : data[i].f1 = 0 /\ data[i].f0 \in DOMAIN parsed.devices

\* The text of the values the model's callers pass, as Python formats them
ExpectedText(v) ==
    CASE v = IntValue(1) -> "1"
      [] v = IntValue(121) -> "121"
      [] v = FloatValue(215) -> "21.5"
      [] OTHER -> ""

\* The query string of the items, built from the last entry backwards
RECURSIVE ExpectedQuery(_)
ExpectedQuery(items) ==
    IF items = <<>> THEN ""
    ELSE LET last == items[Len(items)]
             front == SubSeq(items, 1, Len(items) - 1)
             entry == IF last[2] = NoneValue THEN last[1]
                      ELSE last[1] \o "=" \o ExpectedText(last[2])
         IN  IF front = <<>> THEN entry ELSE ExpectedQuery(front) \o "&" \o entry

\* C14: send_command's query string is the entries of params in mapping
\* order joined by "&", an entry being key=value, or the bare key when the
\* value is None; {cmd: 1, roomid: 121, prog: None} gives
\* "cmd=1&roomid=121&prog".
C14_CommandEncoding ==
    (call.fn = "send_command" /\ call_ret # None) =>
        /\ call_ret = ExpectedQuery(call.params)
        /\ call.params = << <<"cmd", IntValue(1)>>, <<"roomid", IntValue(121)>>,
                            <<"prog", NoneValue>> >>
               => call_ret = "cmd=1&roomid=121&prog"

\* A mapping with a None value before its last entry has been encoded
C14_Witness ==
    /\ call.fn = "send_command"
    /\ call_ret # None
    /\ Len(call.params) = 3
    /\ call.params[2][2] = NoneValue
    /\ call.params[3][2] = FloatValue(215)

\* C15: a task waiting for the gate of an address that no other task is
\* in a session context of finds the gate free, whatever tasks hold or wait
\* for the gates of other addresses.
C15_AddressesIndependent ==
    \A q \in Procs :
        (/\ pc[q] = "acquire"
         /\ \A p \in Procs \ {q} : wunda_ip(p) = wunda_ip(q) => pc[p] \notin InSession)
            => ~Locked(_semaphores, wunda_ip(q))

\* Tasks on two addresses are inside their session contexts at one time,
\* while a third waits for one of the gates
C15_Witness ==
    \E p, q, w \in Procs :
        /\ wunda_ip(p) # wunda_ip(q)
        /\ pc[p] \in InSession /\ pc[q] \in InSession
        /\ pc[w] = "acquire"

\* C16: in a poll cycle every failed fetch but the fifth is followed by a
\* sleep and another fetch; the fifth failed fetch raises UpdateFailed after
\* 5 requests and 4 sleeps; a failed fetch leaves the cached graph and the
\* latched hub serial as they are; a successful fetch ends the cycle.
C16_PollRetryAndFailure ==
    [][\A p \in Pollers :
          /\ \A reply \in FailedReplies :
                PollResponse(p, reply) =>
                    /\ requests[p] = attempts[p]
                    /\ sleeps[p] = attempts[p] - 1
                    /\ _devices' = _devices
                    /\ _hub_info' = _hub_info
                    /\ IF attempts[p] < 5
                       THEN /\ pc'[p] = "sleep"
                            /\ sleeps'[p] = sleeps[p] + 1
                            /\ outcome'[p] = None
                       ELSE /\ pc'[p] = "idle"
                            /\ outcome'[p] = "UpdateFailed"
                            /\ requests[p] = 5
                            /\ sleeps[p] = 4
          /\ (pc[p] = "sleep" /\ pc'[p] # "sleep") =>
                 pc'[p] = "acquire" /\ attempts'[p] = attempts[p] + 1
          /\ (pc[p] = "acquire" /\ pc'[p] # "acquire") =>
                 pc'[p] = "fetch" /\ requests'[p] = requests[p] + 1
          /\ (pc[p] = "fetch" /\ result'[p].state) =>
                 pc'[p] = "idle" /\ outcome'[p] = "returned"]_vars

\* A poll cycle has raised UpdateFailed with a graph in the cache
C16_Witness ==
    \E p \in Pollers :
        /\ outcome[p] = "UpdateFailed"
        /\ _devices[wunda_ip(p)] # EmptyDict

\* C17: a fetch with status 200 whose payload has no hub serial number, on
\* an attempt that is not the last of its poll cycle, is followed by a sleep
\* and another fetch, and leaves the cached graph as it is.
C17_FormatErrorRetried ==
    [][\A p \in Pollers :
          (pc[p] = "fetch" /\ pc'[p] # "fetch"
             /\ result'[p].raised = "No device_sn found" /\ attempts[p] < 5) =>
              /\ pc'[p] = "sleep"
              /\ outcome'[p] = None
              /\ _devices' = _devices]_vars

\* C18: no step of an entity action changes the cached graph, and when its
\* send_command raises, the action requests no refresh and the gate of its
\* address is released.
C18_FailedCommandFrame ==
    [][\A p \in Actors :
          /\ pc'[p] # pc[p] => _devices' = _devices /\ _hub_info' = _hub_info
          /\ (pc[p] = "request" /\ outcome'[p] \notin {None, "returned"}) =>
                 /\ pc'[p] = "idle"
                 /\ ~refresh'[p]
                 /\ _semaphores'[wunda_ip(p)] = _semaphores[wunda_ip(p)] + 1
          /\ (pc[p] = "request" /\ outcome'[p] = "returned") => refresh'[p]]_vars

\* An entity action's command has raised while the cache holds a graph
C18_Witness ==
    \E p \in Actors :
        /\ outcome[p] \in {"RuntimeError", "TimeoutError"}
        /\ ~refresh[p]
        /\ _devices[wunda_ip(p)] # EmptyDict
        /\ ~Locked(_semaphores, wunda_ip(p))

\* C19: for a Room r, get_sensor_id_from_room(r) is r's id less the first
\* room id plus the first sensor id of the table for r's hardware version
\* (121 at version 4 gives 1, 100 at version 2 gives 1).
C19_RoomSensorOffset ==
    call.fn = "get_sensor_id_from_room" =>
        LET r == call.device
            v == IF Floor(r["hw_version"]) = 2 THEN 2 ELSE 4
        IN  /\ call_ret = Returns(r["device_id"] - DEVICE_ID_RANGES[v].MIN_ROOM_ID
                                      + DEVICE_ID_RANGES[v].MIN_SENSOR_ID)
            /\ (r["device_id"] = 121 /\ v = 4) => call_ret = Returns(1)
            /\ (r["device_id"] = 100 /\ v = 2) => call_ret = Returns(1)

\* The helper has been called on Room 100 of a version-2 hub
C19_Witness ==
    /\ call.fn = "get_sensor_id_from_room"
    /\ call.device["device_id"] = 100
    /\ call.device["hw_version"] = 20
    /\ call_ret = Returns(1)

\* C20: for a TRV, get_room_id_from_device returns the room_id of its state
\* plus the first room id of its hardware version's table (room_id 0 at
\* version 4 gives 121), and returns None, without raising, when the state
\* has no room_id or the TRV has no state.
C20_TrvRoom ==
    (call.fn = "get_room_id_from_device" /\ call.device["device_type"] = "TRV") =>
        LET trv == call.device
            v == IF Floor(trv["hw_version"]) = 2 THEN 2 ELSE 4
            has == "state" \in DOMAIN trv /\ "room_id" \in DOMAIN trv["state"]
        IN  /\ ~has => call_ret = ReturnsNone
            /\ (has /\ trv["state"]["room_id"] = "0") =>
                   call_ret = Returns(DEVICE_ID_RANGES[v].MIN_ROOM_ID)
            /\ (has /\ trv["state"]["room_id"] = "29") =>
                   call_ret = Returns(29 + DEVICE_ID_RANGES[v].MIN_ROOM_ID)
            /\ (has /\ trv["state"]["room_id"] = "0" /\ trv["hw_version"] = 40) =>
                   call_ret = Returns(121)
            /\ call_ret.raised = None

\* A version-4 TRV with room_id 0 has been resolved to a room
C20_Witness ==
    /\ call.fn = "get_room_id_from_device"
    /\ call.device["device_type"] = "TRV"
    /\ call.device["hw_version"] = 40
    /\ "state" \in DOMAIN call.device
    /\ Get(call.device["state"], "room_id", None) = "0"
    /\ call_ret = Returns(121)

\* C21: get_room_id_from_device raises for every device whose type is the
\* hub's, UFH or UNKNOWN, and returns neither None nor an id for them; for
\* a ROOM it returns the device's own id; it returns None only for a TRV
\* whose state has no room_id.
C21_NoRoomIsNotAnError ==
    call.fn = "get_room_id_from_device" =>
        LET device == call.device
            device_type == device["device_type"]
        IN  /\ device_type \in {"wunda", "UFH", "UNKNOWN"} =>
                   /\ call_ret.raised = "RuntimeError"
                   /\ call_ret = Raises("RuntimeError")
            /\ device_type = "ROOM" => call_ret = Returns(device["device_id"])
            /\ (call_ret.raised = None /\ call_ret.none) =>
                   /\ device_type = "TRV"
                   /\ ~("state" \in DOMAIN device /\ "room_id" \in DOMAIN device["state"])

\* The helper has been called on an underfloor heating box and has raised
C21_Witness ==
    /\ call.fn = "get_room_id_from_device"
    /\ call.device["device_type"] = "UFH"
    /\ call_ret.raised = "RuntimeError"

\* Line i of `data` is a record the parser stores: its second field is not
\* zero and it is not a disabled Room's
AcceptedLine(i) == data[i].f1 # 0 /\ ~DisabledRoomLine(i)

\* The sensor id the offset law pairs with the Room id of line j
PairedSensor(j) ==
    LET v == IF Floor(FirstLineVersion) = 2 THEN 2 ELSE 4
    IN  data[j].f0 - DEVICE_ID_RANGES[v].MIN_ROOM_ID + DEVICE_ID_RANGES[v].MIN_SENSOR_ID

\* Line j is a Room record and line i, before it, a record of its paired
\* Sensor
SensorBeforeRoom(i, j) ==
    /\ i < j
    /\ _device_type_from_id(data[j].f0, FirstLineVersion) = "ROOM"
    /\ data[i].f0 = PairedSensor(j)

\* C22 as stated: whenever a Room record is preceded by a record of its
\* paired Sensor, the Room's sensor_state in the returned graph equals
\* that Sensor's state in the same graph.
C22_PairedSensorValues ==
    parsed.raised = None =>
        \A j \in 1..Len(data) : \A i \in 1..Len(data) :
            (/\ SensorBeforeRoom(i, j)
             /\ data[j].f0 \in DOMAIN parsed.devices
             /\ data[i].f0 \in DOMAIN parsed.devices)
                => parsed.devices[data[j].f0]["sensor_state"]
                       = parsed.devices[data[i].f0]["state"]

\* C22: whenever a stored Room record (second field non-zero, not
\* disabled) is preceded by a stored record (second field non-zero) of its
\* paired Sensor, the Room's sensor_state in the returned graph equals
\* that Sensor's state in the same graph; Room 121 at version 4 with
\* Sensor 1 reporting temp:17.8;rh:66.57 gets exactly these two values.
C22_PairedSensorValuesStored ==
    parsed.raised = None =>
        /\ \A j \in 1..Len(data) : \A i \in 1..Len(data) :
               (SensorBeforeRoom(i, j) /\ AcceptedLine(i) /\ AcceptedLine(j))
                   => /\ data[j].f0 \in DOMAIN parsed.devices
                      /\ data[i].f0 \in DOMAIN parsed.devices
                      /\ parsed.devices[data[j].f0]["sensor_state"]
                             = parsed.devices[data[i].f0]["state"]
        /\ data = <<HubLine4, Sensor1Both, Room121Named>> =>
               parsed.devices[121]["sensor_state"] = [temp |-> "17.8", rh |-> "66.57"]

\* Room 121 has been parsed after its Sensor 1 and has the sensor's values
C22_Witness ==
    /\ parsed.raised = None
    /\ data = <<HubLine4, Sensor1Both, Room121Named>>
    /\ parsed.devices[121]["sensor_state"] = parsed.devices[1]["state"]
    /\ parsed.devices[121]["sensor_state"] # EmptyDict

\* C23: a cached Room whose sensor_state is empty because its record came
\* before its paired Sensor's in the payload has, after later successful
\* polls of payloads with both records in that order, the Sensor's state
\* as its sensor_state.
C23_EmptySensorStateTransient ==
    \A p \in Pollers :
        ([]<>(pc[p] = "idle" /\ outcome[p] = "returned")) =>
            ((/\ 121 \in DOMAIN _devices[wunda_ip(p)]
              /\ _devices[wunda_ip(p)][121]["sensor_state"] = EmptyDict)
                ~> (/\ 121 \in DOMAIN _devices[wunda_ip(p)]
                    /\ 1 \in DOMAIN _devices[wunda_ip(p)]
                    /\ _devices[wunda_ip(p)][121]["sensor_state"]
                           = _devices[wunda_ip(p)][1]["state"]))

\* The device type of an id by the ranges of a table
TypeInTable(device_id, t) ==
    CASE device_id < t.MIN_SENSOR_ID -> "wunda"
      [] device_id \in t.MIN_SENSOR_ID..t.MAX_SENSOR_ID -> "SENSOR"
      [] device_id \in t.MIN_TRV_ID..t.MAX_TRV_ID -> "TRV"
      [] device_id \in t.MIN_UFH_ID..t.MAX_UFH_ID -> "UFH"
      [] device_id \in t.MIN_ROOM_ID..t.MAX_ROOM_ID -> "ROOM"
      [] OTHER -> "UNKNOWN"

\* The table a hardware version has to use: its own if its integer floor
\* is 2 or 4, else that of version 4
TableOf(hw_version) ==
    IF hw_version \in 20..29 THEN DEVICE_ID_RANGES[2] ELSE DEVICE_ID_RANGES[4]

\* C24: for every device id and every hardware version, the classifier
\* and the room/sensor id helpers use the table of the version's integer
\* floor when that is 2 or 4 (2.5 and 4.9 use their own table), and the
\* version-4 table otherwise, exactly as for version 4; no call fails
\* because of the version.
C24_UnknownVersionUsesDefault ==
    /\ (call.fn = "_device_type_from_id" /\ call_ret # Pending) =>
           /\ call_ret.raised = None
           /\ call_ret.device_type = TypeInTable(call.device_id, TableOf(call.hw_version))
           /\ call.hw_version \notin (20..29) =>
                  call_ret.device_type = TypeInTable(call.device_id, DEVICE_ID_RANGES[4])
    /\ (call.fn = "get_sensor_id_from_room" /\ call_ret # Pending) =>
           call_ret = Returns(call.device["device_id"]
                                  - TableOf(call.device["hw_version"]).MIN_ROOM_ID
                                  + TableOf(call.device["hw_version"]).MIN_SENSOR_ID)
    /\ (call.fn = "get_room_id_from_device" /\ call_ret # Pending) =>
           LET device == call.device
               t == TableOf(device["hw_version"])
               device_type == TypeInTable(device["device_id"], t)
           IN  /\ device["device_type"] = device_type
               /\ device_type = "SENSOR" =>
                      call_ret = Returns(device["device_id"] - t.MIN_SENSOR_ID + t.MIN_ROOM_ID)
               /\ device_type = "ROOM" => call_ret = Returns(device["device_id"])
               /\ device_type = "TRV" => call_ret = ReturnsNone
               /\ call_ret.raised # None => device_type \in {"wunda", "UFH", "UNKNOWN"}

\* Id 85 has been classified at version 2.5 (not a UFH, as it is beyond the
\* version-2 range) and at a version without a table (a TRV, as at
\* version 4)
C24_Witness ==
    /\ call.fn = "_device_type_from_id"
    /\ call_ret # Pending
    /\ call.device_id = 85
    /\ \/ call.hw_version = 25 /\ call_ret.device_type = "UNKNOWN"
       \/ call.hw_version = 30 /\ call_ret.device_type = "TRV"

\* C25: while a payload whose hardware version has no table is parsed and
\* its devices classified, the unknown-version warning is shown exactly
\* once, however many devices are classified and however many calls of
\* the classifier and the helpers are made.
C25_OneWarningPerUnknownVersion ==
    (/\ parsed # NotCalled
     /\ parsed.raised = None
     /\ data # <<>>
     /\ Floor(FirstLineVersion) \notin {2, 4})
        => warned = 1

\* C26: the session table holds at most one session per hub address; a
\* call of get_persistent_session leaves the table as it is (and yields
\* the stored session) whenever the address has a stored session that is
\* not closed, and makes and stores a new session only when the address
\* has none or its stored session is closed; no other address's entry
\* changes.
C26_PersistentSessionPerAddress ==
    [][\A p \in Pollers \cup Actors :
          (pc[p] = "acquire" /\ pc'[p] # "acquire") =>
              LET a == wunda_ip(p)
              IN  /\ DOMAIN _sessions' \subseteq Addrs
                  /\ IF a \in DOMAIN _sessions /\ ~_sessions[a].closed
                     THEN _sessions' = _sessions
                     ELSE /\ DOMAIN _sessions' = DOMAIN _sessions \cup {a}
                          /\ ~_sessions'[a].closed
                          /\ _sessions'[a].made
                                 = (IF a \in DOMAIN _sessions THEN _sessions[a].made ELSE 0) + 1
                          /\ \A b \in DOMAIN _sessions : b # a => _sessions'[b] = _sessions[b]
      ]_vars

\* A stored session was closed, and a new one has been made and stored for
\* the task now inside its session context
C26_Witness ==
    \E p \in Pollers \cup Actors :
        /\ pc[p] \in InSession
        /\ wunda_ip(p) \in DOMAIN _sessions
        /\ _sessions[wunda_ip(p)].made = 2
        /\ ~_sessions[wunda_ip(p)].closed

\* C27: on every way out of the body of get_transient_session, with a
\* result or with an exception, the session and the connector are closed
\* and the task suspends once while it still holds the address's gate; the
\* gate is released only after that, so no other operation on the address
\* starts before the teardown is over; and no step of the probe changes
\* the persistent-session table.
C27_TransientTeardownOrder ==
    [][\A p \in Probes :
          LET a == wunda_ip(p)
              closed == [session |-> "closed", connector |-> "closed"]
          IN  /\ (pc[p] = "probe_fetch" /\ pc'[p] # "probe_fetch") =>
                     /\ pc'[p] = "teardown"
                     /\ transient'[p] = closed
                     /\ Locked(_semaphores', a)
              /\ (pc[p] \in {"probe_fetch", "teardown"} /\ ~Locked(_semaphores', a)) =>
                     /\ pc[p] = "teardown"
                     /\ transient[p] = closed
                     /\ pc'[p] = "idle"
              /\ \A q \in Procs \ {p} :
                     (wunda_ip(q) = a /\ pc[q] = "acquire" /\ pc'[q] # "acquire") =>
                         pc[p] \notin {"probe_fetch", "teardown"}
              /\ pc'[p] # pc[p] => _sessions' = _sessions
      ]_vars

\* parse_syncvalues has raised in the body of a probe, which is suspended
\* in its teardown with the gate held while another task waits for it
C27_Witness ==
    \E p \in Probes :
        /\ pc[p] = "teardown"
        /\ result[p].raised # None
        /\ transient[p] = [session |-> "closed", connector |-> "closed"]
        /\ Locked(_semaphores, wunda_ip(p))
        /\ \E q \in Procs \ {p} : wunda_ip(q) = wunda_ip(p) /\ pc[q] = "acquire"

\* The reserved names of identity fields
ReservedNames == {"device_sn", "prod_sn", "device_name", "device_type", "eth_mac", "name",
                  "id", "i"}

\* The stored records of a device id in `data`, and the keys of line i
StoredLines(id) == {i \in 1..Len(data) : data[i].f0 = id /\ AcceptedLine(i)}

KeysOfLine(i) == {data[i].kv[j][1] : j \in 1..Len(data[i].kv)}

\* The value the last stored record of `id` that carries key k gives it
LastValue(id, k) ==
    LET carriers == {i \in StoredLines(id) : k \in KeysOfLine(i)}
        last == CHOOSE i \in carriers : \A j \in carriers : j <= i
    IN  DictFromPairs(data[last].kv)[k]

\* C28: in every device of the graph parse_syncvalues returns, state has
\* no key of the reserved identity names, and has exactly the other keys
\* of the device's stored records, each with the value of the last record
\* that carried it: state is merged over the repeated records of an id.
C28_IdentityStatePartition ==
    parsed.raised = None =>
        \A id \in DOMAIN parsed.devices :
            LET state == parsed.devices[id]["state"]
                keys == UNION {KeysOfLine(i) : i \in StoredLines(id)}
            IN  /\ DOMAIN state \cap ReservedNames = {}
                /\ DOMAIN state = keys \ ReservedNames
                /\ \A k \in keys \ ReservedNames : state[k] = LastValue(id, k)

\* Sensor 1 has been parsed from two records: the later one has replaced
\* temp and the earlier one's rh has stayed
C28_Witness ==
    /\ parsed.raised = None
    /\ data = <<HubLine4, Sensor1Both, Sensor1Warm>>
    /\ parsed.devices[1]["state"] = [temp |-> "19.5", rh |-> "66.57"]
    /\ "device_name" \in DOMAIN parsed.devices[0]
    /\ "device_name" \notin DOMAIN parsed.devices[0]["state"]

\* Bit `mask` (a power of two) of n is set
Bit(n, mask) == (n \div mask) % 2 = 1

\* The number a state value stands for: 0 when it is missing or is not a
\* decimal number
Flags(room, key) ==
    LET state == IF "state" \in DOMAIN room THEN room["state"] ELSE EmptyDict
    IN  IF key \in DOMAIN state /\ \E n \in -1..MaxTempPre : ToString(n) = state[key]
        THEN CHOOSE n \in -1..MaxTempPre : ToString(n) = state[key]
        ELSE 0

\* C29: after a coordinator update the entity's hvac_mode is OFF when the
\* room's temp_pre has both bits 0x10 and 0x04 set, otherwise HEAT when
\* bit 0x10 is set and bit 0x80 is clear, otherwise AUTO; a missing or
\* unparseable temp_pre counts as 0 and gives AUTO.
C29_HvacModeFromFlags ==
    (call.fn = "_handle_coordinator_update" /\ call_ret # Pending) =>
        LET temp_pre == Flags(call.room, "temp_pre")
            state == IF "state" \in DOMAIN call.room THEN call.room["state"] ELSE EmptyDict
        IN  /\ call_ret._attr_hvac_mode
                   = (IF Bit(temp_pre, 16) /\ Bit(temp_pre, 4) THEN "off"
                      ELSE IF Bit(temp_pre, 16) /\ ~Bit(temp_pre, 128) THEN "heat"
                      ELSE "auto")
            /\ ("temp_pre" \notin DOMAIN state \/ state["temp_pre"] \in {"", "abc", "1.5", "0x10"})
                   => call_ret._attr_hvac_mode = "auto"

\* The entity of a room whose temp_pre has bits 0x80, 0x10 and 0x04 has
\* been updated and is OFF
C29_Witness ==
    /\ call.fn = "_handle_coordinator_update"
    /\ call_ret # Pending
    /\ "state" \in DOMAIN call.room
    /\ Get(call.room["state"], "temp_pre", None) = "148"
    /\ call_ret._attr_hvac_mode = "off"

\* C30: after a coordinator update the entity's hvac_action is PREHEATING
\* when temp_pre bit 0x80 and heat bit 0x01 are both set, otherwise
\* HEATING when heat bits 0x01 and 0x02 are both set, otherwise IDLE when
\* exactly one of heat bits 0x01 and 0x02 is set, otherwise OFF.
C30_HvacActionFromFlags ==
    (call.fn = "_handle_coordinator_update" /\ call_ret # Pending) =>
        LET temp_pre == Flags(call.room, "temp_pre")
            heat == Flags(call.room, "heat")
        IN  call_ret._attr_hvac_action
                = (IF Bit(temp_pre, 128) /\ Bit(heat, 1) THEN "preheating"
                   ELSE IF Bit(heat, 1) /\ Bit(heat, 2) THEN "heating"
                   ELSE IF Bit(heat, 1) # Bit(heat, 2) THEN "idle"
                   ELSE "off")

\* The entity of a room in adaptive start with heat delivered and demanded
\* has been updated and is PREHEATING
C30_Witness ==
    /\ call.fn = "_handle_coordinator_update"
    /\ call_ret # Pending
    /\ "state" \in DOMAIN call.room
    /\ Get(call.room["state"], "temp_pre", None) = "128"
    /\ Get(call.room["state"], "heat", None) = "7"
    /\ call_ret._attr_hvac_action = "preheating"


\* The number of tenths a temperature string of the hub stands for, and -1
\* for a string that is no number
Tenths(s) ==
    CASE s = "0.0" -> 0
      [] s = "16.0" -> 160
      [] s = "17.8" -> 178
      [] s = "18.0" -> 180
      [] s = "18.5" -> 185
      [] s = "19.0" -> 190
      [] s = "20.5" -> 205
      [] s \in {"21", "21.0"} -> 210
      [] s = "23.0" -> 230
      [] s = "25.0" -> 250
      [] s = "55.0" -> 550
      [] OTHER -> -1

\* The TRVs of the graph that give room_id 0, which stands for Room 121 at
\* version 4, and of these the ones with a non-zero vtemp
TrvsOfRoom121(devices) ==
    {id \in DOMAIN devices :
        /\ devices[id]["device_type"] = "TRV"
        /\ "room_id" \in DOMAIN devices[id]["state"]
        /\ devices[id]["state"]["room_id"] = "0"}

WarmTrvs(devices) ==
    {id \in TrvsOfRoom121(devices) :
        /\ "vtemp" \in DOMAIN devices[id]["state"]
        /\ Tenths(devices[id]["state"]["vtemp"]) > 0}

\* C31: after a coordinator update the current temperature is the temp of
\* the room's sensor_state when it has one; otherwise it is the mean of the
\* non-zero vtemp values of the TRVs of the graph whose room id is the
\* room's; with neither, it is what it was before; and with a sensor_state
\* that has no rh the entity has no humidity.
C31_CurrentTemperatureSource ==
    (call.fn = "_handle_coordinator_update" /\ call_ret # Pending /\ call.wunda_id = 121) =>
        LET sensor_state == IF "sensor_state" \in DOMAIN call.room
                            THEN call.room["sensor_state"] ELSE EmptyDict
            now == call_ret._attr_current_temperature
            warm == WarmTrvs(call.devices)
            total == SumOver([id \in warm |-> Tenths(call.devices[id]["state"]["vtemp"])],
                             warm)
        IN  /\ ("temp" \in DOMAIN sensor_state /\ Tenths(sensor_state["temp"]) >= 0) =>
                   now = [num |-> Tenths(sensor_state["temp"]), den |-> 1]
            /\ ("temp" \notin DOMAIN sensor_state /\ warm # {}) =>
                   /\ now.den # 0
                   /\ now.num * Cardinality(warm) = total * now.den
            /\ ("temp" \notin DOMAIN sensor_state /\ warm = {}) =>
                   now = call.entity._attr_current_temperature
            /\ sensor_state = EmptyDict => call_ret._attr_current_humidity = NoneFloat

\* The entity of a room without a sensor has been updated from three TRVs,
\* one of them of another room: its temperature is the mean of 18.0 and
\* 19.0, and it has no humidity
C31_Witness ==
    /\ call.fn = "_handle_coordinator_update"
    /\ call_ret # Pending
    /\ "sensor_state" \notin DOMAIN call.room
    /\ call.devices # EmptyDict
    /\ 33 \in DOMAIN call.devices
    /\ call.devices[31] = TrvDevice(31, "0", "18.0")
    /\ call.devices[32] = TrvDevice(32, "1", "20.5")
    /\ call.entity._attr_current_temperature = FloatAttr(150)
    /\ call_ret._attr_current_temperature = [num |-> 370, den |-> 2]
    /\ call_ret._attr_current_humidity = NoneFloat

\* The one command an entity command has sent, and the value it has for a
\* key
OnlyCommand == call_ret.commands[1]

HasEntry(params, k, v) == \E i \in 1..Len(params) : params[i] = <<k, v>>

HasKey(params, k) == \E i \in 1..Len(params) : params[i][1] = k

\* C32: async_set_hvac_mode sends exactly one command, with cmd=1 and the
\* room's id as roomid: with the bare key prog (and no temp) for AUTO, with
\* the room's t_hi as temp for HEAT, with temp 0.0 for OFF; turn_on does
\* what HEAT does and turn_off what OFF does; exactly one refresh is
\* requested when the command has succeeded and none when it has raised;
\* an unsupported mode raises and sends nothing.
C32_HvacModeCommands ==
    (/\ call.fn \in {"async_set_hvac_mode", "async_turn_on", "async_turn_off"}
     /\ call_ret # Pending) =>
        LET mode == CASE call.fn = "async_turn_on" -> "heat"
                      [] call.fn = "async_turn_off" -> "off"
                      [] OTHER -> call.arg
            state == IF "state" \in DOMAIN call.room THEN call.room["state"] ELSE EmptyDict
            roomid == ToString(call.wunda_id)
        IN  /\ mode = "auto" =>
                   /\ Len(call_ret.commands) = 1
                   /\ HasEntry(OnlyCommand, "cmd", IntValue(1))
                   /\ HasEntry(OnlyCommand, "roomid", IntValue(call.wunda_id))
                   /\ HasEntry(OnlyCommand, "prog", NoneValue)
                   /\ ~HasKey(OnlyCommand, "temp")
                   /\ EncodeParams(OnlyCommand)
                          = "cmd=1&roomid=" \o roomid \o "&prog&locktt=0&time=0"
            /\ (mode = "heat" /\ "t_hi" \in DOMAIN state /\ Tenths(state["t_hi"]) >= 0) =>
                   /\ Len(call_ret.commands) = 1
                   /\ HasEntry(OnlyCommand, "cmd", IntValue(1))
                   /\ HasEntry(OnlyCommand, "roomid", IntValue(call.wunda_id))
                   /\ HasEntry(OnlyCommand, "temp", FloatValue(Tenths(state["t_hi"])))
                   /\ ~HasKey(OnlyCommand, "prog")
            /\ mode = "off" =>
                   /\ Len(call_ret.commands) = 1
                   /\ HasEntry(OnlyCommand, "cmd", IntValue(1))
                   /\ HasEntry(OnlyCommand, "roomid", IntValue(call.wunda_id))
                   /\ HasEntry(OnlyCommand, "temp", FloatValue(0))
                   /\ EncodeParams(OnlyCommand)
                          = "cmd=1&roomid=" \o roomid \o "&temp=0.0&locktt=0&time=0"
            /\ mode \notin {"auto", "heat", "off"} =>
                   /\ call_ret.raised = "NotImplementedError"
                   /\ call_ret.commands = <<>>
            /\ Len(call_ret.commands) <= 1
            /\ call_ret.refreshes
                   = (IF call_ret.raised = None /\ Len(call_ret.commands) = 1 THEN 1 ELSE 0)

\* turn_on of Room 122, whose t_hi is 23.0, has sent temp=23.0 for room
\* 122 and has requested one refresh
C32_Witness ==
    /\ call.fn = "async_turn_on"
    /\ call.wunda_id = 122
    /\ call_ret # Pending
    /\ call_ret.raised = None
    /\ call_ret.commands = << TempParams(122, 230) >>
    /\ EncodeParams(call_ret.commands[1]) = "cmd=1&roomid=122&temp=23.0&locktt=0&time=0"
    /\ call_ret.refreshes = 1

\* The state key of a preset
KeyOfPreset(p) ==
    CASE p = "reduced" -> "t_lo"
      [] p = "eco" -> "t_norm"
      [] p = "comfort" -> "t_hi"

\* What C33 says of the presets reduced, eco, comfort and none
PresetCommandsSent ==
    LET state == IF "state" \in DOMAIN call.room THEN call.room["state"] ELSE EmptyDict
    IN  /\ (/\ call.arg \in {"reduced", "eco", "comfort"}
            /\ KeyOfPreset(call.arg) \in DOMAIN state
            /\ Tenths(state[KeyOfPreset(call.arg)]) >= 0) =>
               /\ Len(call_ret.commands) = 1
               /\ HasEntry(OnlyCommand, "roomid", IntValue(call.wunda_id))
               /\ HasEntry(OnlyCommand, "temp",
                           FloatValue(Tenths(state[KeyOfPreset(call.arg)])))
        /\ call.arg = "none" => call_ret.commands = <<>> /\ call_ret.raised = None

\* C33 as stated: async_set_preset_mode(p) for p in {reduced, eco, comfort}
\* sends exactly one command with the room's id and the room's t_lo,
\* t_norm, t_hi as temp; 'none' sends no command; every other preset
\* raises and sends nothing.
C33_PresetCommands ==
    (call.fn = "async_set_preset_mode" /\ call_ret # Pending) =>
        /\ PresetCommandsSent
        /\ call.arg \notin {"reduced", "eco", "comfort", "none"} =>
               call_ret.raised = "NotImplementedError" /\ call_ret.commands = <<>>

\* C33 amended: as stated, but it is every other non-empty preset that
\* raises; an empty preset (None or '') sends no command and raises
\* nothing, like 'none'.
C33_PresetCommandsNonEmpty ==
    (call.fn = "async_set_preset_mode" /\ call_ret # Pending) =>
        /\ PresetCommandsSent
        /\ call.arg \notin {"reduced", "eco", "comfort", "none", "", None} =>
               call_ret.raised = "NotImplementedError" /\ call_ret.commands = <<>>
        /\ call.arg \in {"", None} => call_ret.raised = None /\ call_ret.commands = <<>>

\* The preset eco of Room 121, whose t_norm is 18.5, has sent temp=18.5
C33_Witness ==
    /\ call.fn = "async_set_preset_mode"
    /\ call.arg = "eco"
    /\ call.wunda_id = 121
    /\ call_ret # Pending
    /\ call_ret.raised = None
    /\ call_ret.commands = << TempParams(121, 185) >>

\* What C35 says of the listed operation modes: the one cmd=3 command
\* with hw_boost_time or hw_off_time of 60*N seconds, and the mode and
\* timeout left as they were when the command has raised
OperationCommandsSent ==
    /\ \A N \in {30, 60, 90, 120} :
           /\ (call.arg = "boost_" \o ToString(N) \/ (call.arg = "on" /\ N = 120)) =>
                  call_ret.commands
                      = << << <<"cmd", IntValue(3)>>, <<"hw_boost_time", IntValue(60 * N)>> >> >>
           /\ (call.arg = "off_" \o ToString(N) \/ (call.arg = "off" /\ N = 120)) =>
                  call_ret.commands
                      = << << <<"cmd", IntValue(3)>>, <<"hw_off_time", IntValue(60 * N)>> >> >>
    /\ call.arg = "auto" =>
           call_ret.commands = << << <<"cmd", IntValue(3)>>, <<"hw_boost_time", IntValue(0)>> >> >>
    /\ call_ret.raised # None =>
           /\ call_ret._last_operation_mode = call.entity._last_operation_mode
           /\ call_ret._last_operation_mode_timeout = call.entity._last_operation_mode_timeout

\* The operation modes the statement lists
ListedOperations ==
    {"auto", "on", "off"}
    \cup {"boost_" \o ToString(N) : N \in {30, 60, 90, 120}}
    \cup {"off_" \o ToString(N) : N \in {30, 60, 90, 120}}

\* C35 as stated: async_set_operation_mode sends exactly one cmd=3 command
\* for the listed modes; every other mode raises and sends nothing; the
\* last operation mode and its timeout are set only after a command that
\* succeeded.
C35_OperationCommands ==
    (call.fn = "async_set_operation_mode" /\ call_ret # Pending) =>
        /\ OperationCommandsSent
        /\ call.arg \notin ListedOperations =>
               call_ret.raised = "NotImplementedError" /\ call_ret.commands = <<>>
        /\ (\/ call_ret._last_operation_mode # call.entity._last_operation_mode
            \/ call_ret._last_operation_mode_timeout
                   # call.entity._last_operation_mode_timeout) =>
               call_ret.raised = None /\ Len(call_ret.commands) = 1

\* C35 amended: as stated, but it is every other non-empty mode that
\* raises; an empty mode (None or '') sends no command, raises nothing and
\* is recorded with a timeout of 0 seconds; for every other mode the
\* record is made only after a command that succeeded.
C35_OperationCommandsNonEmpty ==
    (call.fn = "async_set_operation_mode" /\ call_ret # Pending) =>
        /\ OperationCommandsSent
        /\ call.arg \notin ListedOperations \cup {"", None} =>
               call_ret.raised = "NotImplementedError" /\ call_ret.commands = <<>>
        /\ call.arg \in {"", None} =>
               /\ call_ret.raised = None /\ call_ret.commands = <<>>
               /\ call_ret._last_operation_mode = call.arg
               /\ call_ret._last_operation_mode_timeout = 0
        /\ (/\ call.arg \notin {"", None}
            /\ \/ call_ret._last_operation_mode # call.entity._last_operation_mode
               \/ call_ret._last_operation_mode_timeout
                      # call.entity._last_operation_mode_timeout) =>
               call_ret.raised = None /\ Len(call_ret.commands) = 1

\* 'on' has sent hw_boost_time=7200 and has been recorded as boost_120 with
\* a timeout 7200 seconds after the call
C35_Witness ==
    /\ call.fn = "async_set_operation_mode"
    /\ call.arg = "on"
    /\ call_ret # Pending
    /\ call_ret.raised = None
    /\ EncodeParams(call_ret.commands[1]) = "cmd=3&hw_boost_time=7200"
    /\ call_ret._last_operation_mode = "boost_120"
    /\ call_ret._last_operation_mode_timeout = 7200
    /\ call.entity._last_operation_mode = "off_60"

C39_CorrelationInsideRanges ==
    /\ (/\ call.fn = "get_room_id_from_device" /\ call_ret # Pending
        /\ call.device["device_type"] = "SENSOR") =>
           LET hw_version == call.device["hw_version"]
           IN  /\ call_ret.raised = None /\ ~call_ret.none
               /\ _device_type_from_id(call_ret.value, hw_version) = "ROOM"
               /\ get_sensor_id_from_room(FreshDevice(call_ret.value, hw_version))
                      = call.device["device_id"]
    /\ (/\ call.fn = "get_sensor_id_from_room" /\ call_ret # Pending
        /\ call.device["device_type"] = "ROOM") =>
           LET hw_version == call.device["hw_version"]
           IN  /\ call_ret.raised = None /\ ~call_ret.none
               /\ _device_type_from_id(call_ret.value, hw_version) = "SENSOR"
               /\ get_room_id_from_device(FreshDevice(call_ret.value, hw_version))
                      = Returns(call.device["device_id"])

\* The values the records of `data` carry under key k, in record order
ValuesOf(k) ==
    [i \in 1..Len(data) |-> Get(DictFromPairs(data[i].kv), k, None)]

\* The first non-empty device_sn of `data`
FirstSerial ==
    LET sns == ValuesOf("device_sn")
        first == CHOOSE i \in 1..Len(data) :
                     /\ sns[i] \notin {None, ""}
                     /\ \A j \in 1..(i - 1) : sns[j] \in {None, ""}
    IN  sns[first]

\* The first non-zero device_hard_version of `data`
FirstVersion ==
    LET hvs == ValuesOf("device_hard_version")
        first == CHOOSE i \in 1..Len(data) :
                     /\ hvs[i] # None /\ Float(hvs[i]) # 0
                     /\ \A j \in 1..(i - 1) : hvs[j] = None \/ Float(hvs[j]) = 0
    IN  Float(hvs[first])

\* C36: every device of the graph parse_syncvalues returns has the first
\* non-zero device_hard_version of the payload as its hw_version and the
\* external id built from the first non-empty device_sn of the payload and
\* its own device id, so the external ids are pairwise distinct; later
\* records with another device_sn or device_hard_version change neither.
C36_SerialAndVersionLatched ==
    (parsed.raised = None /\ DOMAIN parsed.devices # {}) =>
        /\ \A id \in DOMAIN parsed.devices :
               /\ parsed.devices[id]["hw_version"] = FirstVersion
               /\ parsed.devices[id]["id"] = ExternalId(FirstSerial, id)
        /\ \A i, j \in DOMAIN parsed.devices :
               i # j => parsed.devices[i]["id"] # parsed.devices[j]["id"]

\* C40: when a config-flow step (user or reconfigure) has ended, an entry
\* has been created or updated only if the probe fetch succeeded, and after
\* a probe that failed with a non-200 status or a transport error the form
\* has been shown again with an error and no entry has been made.
C40_FailedProbeRejected ==
    \A p \in Probes :
        flow[p] # NoFlow =>
            /\ flow[p].type \in {"create_entry", "update_reload_and_abort"} =>
                   result[p].state = TRUE
            /\ (result[p].state = FALSE /\ result[p].raised = None) =>
                   /\ flow[p].type = "form"
                   /\ flow[p].errors # EmptyDict

\* C38: from the first request of an entity action's command to its last,
\* the delays between them included, the gate of its address is held: no
\* other task of the address is inside a session context or sends a
\* request in a step taken meanwhile; and the refresh is requested only in
\* the step that has released the gate.
C38_GateHeldAcrossRetries ==
    [][\A p \in Actors :
          /\ pc[p] \in {"request", "cmd_sleep"} =>
                 /\ Locked(_semaphores, wunda_ip(p))
                 /\ \A q \in Procs \ {p} :
                        wunda_ip(q) = wunda_ip(p) =>
                            /\ pc[q] \notin InSession /\ pc'[q] \notin InSession
                            /\ requests'[q] = requests[q]
                 /\ pc'[p] \in {"request", "cmd_sleep"} =>
                        /\ Locked(_semaphores', wunda_ip(p))
                        /\ attempts'[p] \in {attempts[p], attempts[p] + 1}
          /\ (refresh'[p] /\ ~refresh[p]) =>
                 /\ pc[p] = "request" /\ pc'[p] = "idle"
                 /\ _semaphores'[wunda_ip(p)] = _semaphores[wunda_ip(p)] + 1
                 /\ ~Locked(_semaphores', wunda_ip(p))]_vars

\* A command is in its retry delay after a failed attempt, the gate held,
\* while a poll and another command of the same address wait for the gate
C38_Witness ==
    \E p \in Actors :
        /\ pc[p] = "cmd_sleep" /\ attempts[p] >= 2
        /\ Locked(_semaphores, wunda_ip(p))
        /\ \E q \in Pollers, r \in Actors \ {p} :
               /\ wunda_ip(q) = wunda_ip(p) /\ wunda_ip(r) = wunda_ip(p)
               /\ pc[q] = "acquire" /\ pc[r] = "acquire"

\* C37: the gate of an address counts 0 or 1, and is taken exactly while
\* one task of the address is inside a session context (so no task takes
\* it twice and every way out of a context gives it back); and a task that
\* waits for a gate gets inside its session context in the end.
C37_GateReleaseAndProgress ==
    /\ [](\A a \in DOMAIN _semaphores :
             /\ _semaphores[a] \in {0, 1}
             /\ _semaphores[a] = 0 <=>
                    \E p \in Procs : wunda_ip(p) = a /\ pc[p] \in InSession)
    /\ \A p \in GateTasks : (pc[p] = "acquire") ~> (pc[p] \in InSession)

\* The poll has left a session context after a failed fetch and waits for
\* the gate again, as does the probe, while the command holds the gate in
\* a retry delay
C37_Witness ==
    /\ pc["pollA"] = "acquire" /\ attempts["pollA"] >= 2
    /\ pc["probeA"] = "acquire"
    /\ pc["act1"] = "cmd_sleep"
    /\ _semaphores["hubA"] = 0

=============================================================================
